---- MODULE Spec2Model ----
(***************************************************************************)
(* The parser of oniguruma-to-es (parse.js): a token stream is walked by   *)
(* recursive descent into an AST whose nodes carry a parent back-link.     *)
(*                                                                         *)
(* The AST is a heap: nodes[i] is the object with identity i, a child      *)
(* container (elements, alternatives, classes) is a sequence of            *)
(* identities, parent = 0 is null.  The recursion of context.walk is the   *)
(* explicit call stack "stack": one frame per activation of                *)
(* parseGroupOpen, parseCharacterClassOpen and parseCharacterClassHyphen   *)
(* that is waiting for a nested walk.  "ret" is the node a walk has just   *)
(* returned and that its caller has not stored yet.                        *)
(*                                                                         *)
(* The token array is an input fixed before parse is called.  parse reads  *)
(* it left to right with one token of lookahead, so the model draws each   *)
(* token when the parser first needs it (Tokenize, EndOfTokens): the       *)
(* behaviours are those of choosing the whole array up front.              *)
(***************************************************************************)
EXTENDS Integers, Sequences, FiniteSets, TLC

\* Longest token array the tokenizer hands over.
MaxTokens == 5
\* Largest value of a capturing GroupOpen token's number field when the
\* tokenizer's numbering is left open (SpecNumbers).
MaxNumber == 2

VARIABLES
    tokens,               \* the token array, as far as the parser has looked
    ended,                \* TRUE: tokens is the whole array
    optimize,             \* the option {optimize}
    current,              \* context.current (0-based, as in the code)
    nodes,                \* the heap of AST nodes
    tokenOf,              \* history: tokenOf[i] = 1-based index of the token
                          \* walk had read when node i was created (0: none)
    capturingGroups,      \* context.capturingGroups
    namedGroups,          \* context.namedGroups: name -> list of nodes
    subroutines,          \* context.subroutines
    hasNumberedGroupRef,  \* context.hasNumberedGroupRef
    top,                  \* parse's local "top"
    stack,                \* activations waiting for a nested walk
    ret,                  \* node returned by the walk that just finished (0: none)
    pc,                   \* "run" | "done" | "error"
    err,                  \* the error thrown, "" if none
    earlier               \* history: how the call of parse before this one,
                          \* with the same arguments, ended (NoCall: none)

vars == <<tokens, ended, optimize, current, nodes, tokenOf, capturingGroups,
          namedGroups, subroutines, hasNumberedGroupRef, top, stack, ret, pc, err,
          earlier>>

----------------------------------------------------------------------------
(* Text.  A string the code slices or matches is a sequence of characters. *)

Digits == {"0", "1", "2", "3", "4", "5", "6", "7", "8", "9"}

DigitValue(c) ==
    CASE c = "0" -> 0 [] c = "1" -> 1 [] c = "2" -> 2 [] c = "3" -> 3
      [] c = "4" -> 4 [] c = "5" -> 5 [] c = "6" -> 6 [] c = "7" -> 7
      [] c = "8" -> 8 [] c = "9" -> 9

\* s.slice(from, to) for from >= 0 and to <= 0 counted from the end.
Slice(s, from, fromEnd) == SubSeq(s, from + 1, Len(s) - fromEnd)

\* Unary plus on a string of decimal digits.
RECURSIVE ToNumber(_)
ToNumber(s) ==
    IF s = <<>> THEN 0
    ELSE 10 * ToNumber(SubSeq(s, 1, Len(s) - 1)) + DigitValue(s[Len(s)])

\* The text left after the leading zeros matched by 0*.
RECURSIVE StripZeros(_)
StripZeros(s) ==
    IF s # <<>> /\ s[1] = "0" THEN StripZeros(Tail(s)) ELSE s

\* /^(?<sign>S?)0*(?<num>[1-9]\d*)$/.exec(ref) for the sign class S:
\* [matched, sign, num].
NumberedRefBy(signs, ref) ==
    LET sign == IF ref # <<>> /\ ref[1] \in signs THEN ref[1] ELSE ""
        rest == IF sign = "" THEN ref ELSE Tail(ref)
        num  == StripZeros(rest)
    IN  [matched |-> /\ num # <<>>
                     /\ num[1] \in Digits \ {"0"}
                     /\ \A i \in 1..Len(num) : num[i] \in Digits,
         sign    |-> sign,
         num     |-> num]

\* The characters the model's names are written with, by Unicode property.
IDStart == {"a", "b"}
IDContinue == IDStart \cup Digits

\* token.name / node.name when the property is absent.
Undefined == <<"undefined">>
\* token.flags / node.flags when the property is absent.
NoFlags == "none"

isValidJsGroupName(name) ==
    /\ name # <<>>
    /\ name[1] \in {"$", "_"} \cup IDStart
    /\ \A i \in 2..Len(name) : name[i] \in {"$"} \cup IDContinue

----------------------------------------------------------------------------
(* Tokens *)

Token ==
    [type |-> "", kind |-> "", negate |-> FALSE, value |-> 0,
     min |-> 0, max |-> 0, greedy |-> TRUE, possessive |-> FALSE,
     number |-> 0, name |-> Undefined, flags |-> NoFlags, raw |-> <<>>]

TAlternator == [Token EXCEPT !.type = "Alternator"]
TAssertion(kind) == [Token EXCEPT !.type = "Assertion", !.kind = kind]
TBackreference(raw) == [Token EXCEPT !.type = "Backreference", !.raw = raw]
TCharacter(value) == [Token EXCEPT !.type = "Character", !.value = value]
TCharacterClassHyphen == [Token EXCEPT !.type = "CharacterClassHyphen"]
TCharacterClassOpen(negate) ==
    [Token EXCEPT !.type = "CharacterClassOpen", !.negate = negate]
TCharacterClassClose == [Token EXCEPT !.type = "CharacterClassClose"]
TCharacterClassIntersector == [Token EXCEPT !.type = "CharacterClassIntersector"]
TCharacterSet(kind, negate) ==
    [Token EXCEPT !.type = "CharacterSet", !.kind = kind, !.negate = negate]
TDirective(kind, flags) ==
    [Token EXCEPT !.type = "Directive", !.kind = kind, !.flags = flags]
TGroupOpen(kind) == [Token EXCEPT !.type = "GroupOpen", !.kind = kind]
TCapturing(name) == [TGroupOpen("capturing") EXCEPT !.name = name]
TGroup(flags) == [TGroupOpen("group") EXCEPT !.flags = flags]
TLookaround(kind, negate) == [TGroupOpen(kind) EXCEPT !.negate = negate]
TGroupClose == [Token EXCEPT !.type = "GroupClose"]
TQuantifier(min, max) ==
    [Token EXCEPT !.type = "Quantifier", !.min = min, !.max = max]
TSubroutine(raw) == [Token EXCEPT !.type = "Subroutine", !.raw = raw]
TVariableLengthCharacterSet(kind) ==
    [Token EXCEPT !.type = "VariableLengthCharacterSet", !.kind = kind]

\* \k<ref>, \n and \g<ref> as the tokenizer leaves them in token.raw.
KRaw(ref) == <<"\\", "k", "<">> \o ref \o <<">">>
BareRaw(digits) == <<"\\">> \o digits
GRaw(ref) == <<"\\", "g", "<">> \o ref \o <<">">>

IsCapturingOpen(t) == t.type = "GroupOpen" /\ t.kind = "capturing"

\* Capturing GroupOpen tokens among the first n tokens.
CapturingOpens(n) ==
    Cardinality({i \in 1..n : i <= Len(tokens) /\ IsCapturingOpen(tokens[i])})

\* Character-class nesting depth the tokenizer is at after the tokens it has
\* produced: inside a class it produces class tokens only.
RECURSIVE LexClassDepth(_)
LexClassDepth(ts) ==
    IF ts = <<>> THEN 0
    ELSE LET d == LexClassDepth(SubSeq(ts, 1, Len(ts) - 1))
             t == ts[Len(ts)]
         IN  CASE t.type = "CharacterClassOpen" -> d + 1
               [] t.type = "CharacterClassClose" /\ d > 0 -> d - 1
               [] OTHER -> d

----------------------------------------------------------------------------
(* AST nodes *)

\* Backreference.ref / Subroutine.ref: a number or a string.
NoRef == [numeric |-> FALSE, num |-> 0, name |-> <<>>]
NumRef(n) == [numeric |-> TRUE, num |-> n, name |-> <<>>]
NameRef(s) == [numeric |-> FALSE, num |-> 0, name |-> s]

\* Every property a node of any type can carry; the ones a type does not
\* have keep these values.
Node ==
    [type |-> "", parent |-> 0,
     elements |-> <<>>, alternatives |-> <<>>, classes |-> <<>>,
     pattern |-> 0, flagsNode |-> 0,
     ignoreCase |-> FALSE, dotAll |-> FALSE, extended |-> FALSE,
     kind |-> "", negate |-> FALSE, value |-> 0,
     number |-> 0, name |-> Undefined, atomic |-> FALSE, flags |-> NoFlags,
     min |-> 0, max |-> 0, greedy |-> FALSE, possessive |-> FALSE,
     element |-> 0, ref |-> NoRef]

getNodeBase(parent, type) == [Node EXCEPT !.type = type, !.parent = parent]

createAlternative(parent) == getNodeBase(parent, "Alternative")

\* The heap h with a new object; its identity is Len(h) + 1.
New(h, node) == Append(h, node)

\* node becomes object Len(h) + 1 and its first alternative Len(h) + 2.
withInitialAlternative(h, node) ==
    LET id == Len(h) + 1
    IN  New(New(h, [node EXCEPT !.alternatives = <<id + 1>>]),
            createAlternative(id))

createCharacterClassBase(parent, negate) ==
    [getNodeBase(parent, "CharacterClass") EXCEPT !.negate = negate]

\* The intersection becomes object Len(h) + 1, its first class Len(h) + 2.
createCharacterClassIntersection(h, parent) ==
    LET id == Len(h) + 1
    IN  New(New(h, [getNodeBase(parent, "CharacterClassIntersection")
                        EXCEPT !.classes = <<id + 1>>]),
            createCharacterClassBase(id, FALSE))

\* node becomes object Len(h) + 1, its intersection Len(h) + 2.
withInitialIntersection(h, node) ==
    LET id == Len(h) + 1
    IN  createCharacterClassIntersection(
            New(h, [node EXCEPT !.elements = <<id + 1>>]), id)

createCharacterClass(h, parent, negate) ==
    withInitialIntersection(h, createCharacterClassBase(parent, negate))

createPattern(h, parent) ==
    withInitialAlternative(h, getNodeBase(parent, "Pattern"))

createFlags(parent, flags) ==
    [getNodeBase(parent, "Flags") EXCEPT !.ignoreCase = flags.ignoreCase,
                                         !.dotAll = flags.dotAll,
                                         !.extended = flags.extended]

\* RegExp is object 1, its Pattern 2, the first Alternative 3, Flags 4.
createRegExp(parent, flags) ==
    LET h1 == createPattern(<<[getNodeBase(parent, "RegExp")
                                 EXCEPT !.pattern = 2, !.flagsNode = 4]>>, 1)
    IN  New(h1, createFlags(1, flags))

createCharacter(parent, charCode) ==
    [getNodeBase(parent, "Character") EXCEPT !.value = charCode]

createBackreference(parent, ref) ==
    [getNodeBase(parent, "Backreference") EXCEPT !.ref = ref]

createSubroutine(parent, ref) ==
    [getNodeBase(parent, "Subroutine") EXCEPT !.ref = ref]

\* [error, node]: error "" when the range is built.
\* createCharacterClassRange without the check of the order.
createCharacterClassRangeUnordered(h, parent, min, max) ==
    [error |-> "",
     node  |-> [getNodeBase(parent, "CharacterClassRange")
                   EXCEPT !.min = min, !.max = max]]

createCharacterClassRange(h, parent, min, max) ==
    IF h[max].value < h[min].value
    THEN [error |-> "RangeOutOfOrder", node |-> Node]
    ELSE [error |-> "",
          node  |-> [getNodeBase(parent, "CharacterClassRange")
                        EXCEPT !.min = min, !.max = max]]

AssertionKinds ==
    [k \in {"^", "$", "\\A", "\\b", "\\B", "\\G", "\\z", "\\Z"} |->
        CASE k = "^" -> "line_start"
          [] k = "$" -> "line_end"
          [] k = "\\A" -> "string_start"
          [] k \in {"\\b", "\\B"} -> "word_boundary"
          [] k = "\\G" -> "search_start"
          [] k = "\\z" -> "string_end"
          [] k = "\\Z" -> "string_end_newline"]

\* [error, node] for an Assertion token or a lookaround GroupOpen token; a
\* lookaround still lacks its first alternative.
createAssertionFromToken(parent, token) ==
    LET base == getNodeBase(parent, "Assertion")
    IN  IF token.type = "GroupOpen"
        THEN [error |-> "",
              node  |-> [base EXCEPT
                  !.kind = IF token.kind = "lookbehind"
                           THEN "lookbehind" ELSE "lookahead",
                  !.negate = token.negate]]
        ELSE IF token.kind \notin DOMAIN AssertionKinds
        THEN [error |-> "UnknownKind", node |-> Node]
        ELSE [error |-> "",
              node  |-> [base EXCEPT
                  !.kind = AssertionKinds[token.kind],
                  !.negate = (token.kind = "\\B")]]

\* Kinds of TokenCharacterSetKinds other than property, whose name goes
\* through the Unicode tables.
CharacterSetKinds == {"any", "digit", "hex", "posix", "space", "word"}
NegatableKinds == {"digit", "hex", "posix", "property", "space", "word"}

createCharacterSetFromToken(parent, token) ==
    IF token.kind \notin CharacterSetKinds
    THEN [error |-> "UnknownKind", node |-> Node]
    ELSE [error |-> "",
          node  |-> [getNodeBase(parent, "CharacterSet") EXCEPT
              !.kind = token.kind,
              !.negate = IF token.kind \in NegatableKinds
                         THEN token.negate ELSE FALSE]]

DirectiveKinds == {"flags", "keep"}

createDirectiveFromToken(parent, token) ==
    IF token.kind \notin DirectiveKinds
    THEN [error |-> "UnknownKind", node |-> Node]
    ELSE [error |-> "",
          node  |-> [getNodeBase(parent, "Directive") EXCEPT
              !.kind = token.kind,
              !.flags = IF token.kind = "flags" THEN token.flags ELSE NoFlags]]

createVariableLengthCharacterSet(parent, kind) ==
    IF kind \notin {"\\R", "\\X"}
    THEN [error |-> "UnknownKind", node |-> Node]
    ELSE [error |-> "",
          node  |-> [getNodeBase(parent, "VariableLengthCharacterSet") EXCEPT
              !.kind = IF kind = "\\R" THEN "newline" ELSE "grapheme"]]

\* The group node before withInitialAlternative.
createGroup(parent, atomic, flags) ==
    LET node == getNodeBase(parent, "Group")
    IN  IF atomic THEN [node EXCEPT !.atomic = TRUE]
        ELSE IF flags # NoFlags THEN [node EXCEPT !.flags = flags]
        ELSE node

\* createCapturingGroup without the number.
createCapturingGroupUnnumbered(parent, number, name) ==
    LET node == getNodeBase(parent, "CapturingGroup")
    IN  IF name = Undefined THEN [error |-> "", node |-> node]
        ELSE IF ~isValidJsGroupName(name)
        THEN [error |-> "InvalidGroupName", node |-> Node]
        ELSE [error |-> "", node |-> [node EXCEPT !.name = name]]

\* [error, node], the node before withInitialAlternative.
createCapturingGroup(parent, number, name) ==
    LET node == [getNodeBase(parent, "CapturingGroup") EXCEPT !.number = number]
    IN  IF name = Undefined THEN [error |-> "", node |-> node]
        ELSE IF ~isValidJsGroupName(name)
        THEN [error |-> "InvalidGroupName", node |-> Node]
        ELSE [error |-> "", node |-> [node EXCEPT !.name = name]]

\* [error, node], the node before its first alternative is added.
createByGroupKind(parent, token) ==
    CASE token.kind = "atomic" ->
           [error |-> "", node |-> createGroup(parent, TRUE, NoFlags)]
      [] token.kind = "capturing" ->
           createCapturingGroup(parent, token.number, token.name)
      [] token.kind = "group" ->
           [error |-> "", node |-> createGroup(parent, FALSE, token.flags)]
      [] token.kind \in {"lookahead", "lookbehind"} ->
           createAssertionFromToken(parent, token)
      [] OTHER -> [error |-> "UnknownKind", node |-> Node]

\* The loop of isWithin from object id upwards.
RECURSIVE WithinFrom(_, _, _, _)
WithinFrom(h, id, type, kind) ==
    IF id = 0 THEN FALSE
    ELSE IF h[id].type = type /\ (kind = "" \/ h[id].kind = kind) THEN TRUE
    ELSE WithinFrom(h, h[id].parent, type, kind)

\* isWithin looking at the group that encloses node only.
isWithinNearest(h, node, type, kind) ==
    LET p == node.parent
        g == IF p = 0 THEN 0 ELSE h[p].parent
    IN  g # 0 /\ h[g].type = type /\ (kind = "" \/ h[g].kind = kind)

isWithin(h, node, type, kind) == WithinFrom(h, node.parent, type, kind)

\* createQuantifier with the check for a lookbehind before that of the
\* order.
createQuantifierLate(h, parent, element, min, max, greedy, possessive) ==
    LET node == [getNodeBase(parent, "Quantifier") EXCEPT
                     !.min = min, !.max = max, !.greedy = greedy,
                     !.possessive = possessive, !.element = element]
    IN  IF min # max /\ isWithin(h, node, "Assertion", "lookbehind")
        THEN [error |-> "VariableLookbehind", node |-> Node]
        ELSE IF max < min THEN [error |-> "RangeOutOfOrder", node |-> Node]
        ELSE [error |-> "", node |-> node]

\* [error, node]
createQuantifier(h, parent, element, min, max, greedy, possessive) ==
    LET node == [getNodeBase(parent, "Quantifier") EXCEPT
                     !.min = min, !.max = max, !.greedy = greedy,
                     !.possessive = possessive, !.element = element]
    IN  IF max < min THEN [error |-> "RangeOutOfOrder", node |-> Node]
        ELSE IF min # max /\ isWithin(h, node, "Assertion", "lookbehind")
        THEN [error |-> "VariableLookbehind", node |-> Node]
        ELSE [error |-> "", node |-> node]

\* getOptimizedGroup without "firstAltFirstEl.parent = node.parent".
getOptimizedGroupStaleParent(h, node) ==
    LET firstAlt == h[node].alternatives[1]
        n == Len(h[firstAlt].elements)
        firstAltFirstEl == IF n > 0 THEN h[firstAlt].elements[1] ELSE 0
    IN  IF /\ h[node].type = "Group"
           /\ Len(h[node].alternatives) = 1
           /\ n = 1
           /\ h[firstAltFirstEl].type = "Group"
           /\ ~(h[node].atomic /\ h[firstAltFirstEl].flags # NoFlags)
           /\ ~(h[node].flags # NoFlags /\
                  (h[firstAltFirstEl].atomic \/ h[firstAltFirstEl].flags # NoFlags))
        THEN [heap |-> [h EXCEPT
                  ![firstAltFirstEl].atomic =
                      IF h[node].atomic THEN TRUE ELSE @,
                  ![firstAltFirstEl].flags =
                      IF ~h[node].atomic /\ h[node].flags # NoFlags
                      THEN h[node].flags ELSE @],
              node |-> firstAltFirstEl]
        ELSE [heap |-> h, node |-> node]

\* getOptimizedGroup without handing atomic and flags down to the child.
getOptimizedGroupNoInherit(h, node) ==
    LET firstAlt == h[node].alternatives[1]
        n == Len(h[firstAlt].elements)
        firstAltFirstEl == IF n > 0 THEN h[firstAlt].elements[1] ELSE 0
    IN  IF /\ h[node].type = "Group"
           /\ Len(h[node].alternatives) = 1
           /\ n = 1
           /\ h[firstAltFirstEl].type = "Group"
           /\ ~(h[node].atomic /\ h[firstAltFirstEl].flags # NoFlags)
           /\ ~(h[node].flags # NoFlags /\
                  (h[firstAltFirstEl].atomic \/ h[firstAltFirstEl].flags # NoFlags))
        THEN [heap |-> [h EXCEPT ![firstAltFirstEl].parent = h[node].parent],
              node |-> firstAltFirstEl]
        ELSE [heap |-> h, node |-> node]

\* getOptimizedGroup lifting a CapturingGroup child as well.
getOptimizedGroupAnyChild(h, node) ==
    LET firstAlt == h[node].alternatives[1]
        n == Len(h[firstAlt].elements)
        firstAltFirstEl == IF n > 0 THEN h[firstAlt].elements[1] ELSE 0
    IN  IF /\ h[node].type = "Group"
           /\ Len(h[node].alternatives) = 1
           /\ n = 1
           /\ h[firstAltFirstEl].type \in {"Group", "CapturingGroup"}
           /\ ~(h[node].atomic /\ h[firstAltFirstEl].flags # NoFlags)
           /\ ~(h[node].flags # NoFlags /\
                  (h[firstAltFirstEl].atomic \/ h[firstAltFirstEl].flags # NoFlags))
        THEN [heap |-> [h EXCEPT
                  ![firstAltFirstEl].parent = h[node].parent,
                  ![firstAltFirstEl].atomic =
                      IF h[node].atomic THEN TRUE ELSE @,
                  ![firstAltFirstEl].flags =
                      IF ~h[node].atomic /\ h[node].flags # NoFlags
                      THEN h[node].flags ELSE @],
              node |-> firstAltFirstEl]
        ELSE [heap |-> h, node |-> node]

\* getOptimizedGroup letting an atomic group merge into a child with flags.
getOptimizedGroupAtomicOverFlags(h, node) ==
    LET firstAlt == h[node].alternatives[1]
        n == Len(h[firstAlt].elements)
        firstAltFirstEl == IF n > 0 THEN h[firstAlt].elements[1] ELSE 0
    IN  IF /\ h[node].type = "Group"
           /\ Len(h[node].alternatives) = 1
           /\ n = 1
           /\ h[firstAltFirstEl].type = "Group"
           /\ ~(h[node].flags # NoFlags /\
                  (h[firstAltFirstEl].atomic \/ h[firstAltFirstEl].flags # NoFlags))
        THEN [heap |-> [h EXCEPT
                  ![firstAltFirstEl].parent = h[node].parent,
                  ![firstAltFirstEl].atomic =
                      IF h[node].atomic THEN TRUE ELSE @,
                  ![firstAltFirstEl].flags =
                      IF ~h[node].atomic /\ h[node].flags # NoFlags
                      THEN h[node].flags ELSE @],
              node |-> firstAltFirstEl]
        ELSE [heap |-> h, node |-> node]

\* getOptimizedGroup letting a group with flags merge into any child group.
getOptimizedGroupFlagsOverAny(h, node) ==
    LET firstAlt == h[node].alternatives[1]
        n == Len(h[firstAlt].elements)
        firstAltFirstEl == IF n > 0 THEN h[firstAlt].elements[1] ELSE 0
    IN  IF /\ h[node].type = "Group"
           /\ Len(h[node].alternatives) = 1
           /\ n = 1
           /\ h[firstAltFirstEl].type = "Group"
           /\ ~(h[node].atomic /\ h[firstAltFirstEl].flags # NoFlags)
        THEN [heap |-> [h EXCEPT
                  ![firstAltFirstEl].parent = h[node].parent,
                  ![firstAltFirstEl].atomic =
                      IF h[node].atomic THEN TRUE ELSE @,
                  ![firstAltFirstEl].flags =
                      IF ~h[node].atomic /\ h[node].flags # NoFlags
                      THEN h[node].flags ELSE @],
              node |-> firstAltFirstEl]
        ELSE [heap |-> h, node |-> node]

\* getOptimizedGroup that leaves every atomic group as it is.
getOptimizedGroupPlainOnly(h, node) ==
    LET firstAlt == h[node].alternatives[1]
        n == Len(h[firstAlt].elements)
        firstAltFirstEl == IF n > 0 THEN h[firstAlt].elements[1] ELSE 0
    IN  IF /\ h[node].type = "Group"
           /\ ~h[node].atomic
           /\ Len(h[node].alternatives) = 1
           /\ n = 1
           /\ h[firstAltFirstEl].type = "Group"
           /\ ~(h[node].flags # NoFlags /\
                  (h[firstAltFirstEl].atomic \/ h[firstAltFirstEl].flags # NoFlags))
        THEN [heap |-> [h EXCEPT
                  ![firstAltFirstEl].parent = h[node].parent,
                  ![firstAltFirstEl].flags =
                      IF h[node].flags # NoFlags THEN h[node].flags ELSE @],
              node |-> firstAltFirstEl]
        ELSE [heap |-> h, node |-> node]

\* getOptimizedGroup letting a group with flags merge into an atomic child.
getOptimizedGroupFlagsOverAtomic(h, node) ==
    LET firstAlt == h[node].alternatives[1]
        n == Len(h[firstAlt].elements)
        firstAltFirstEl == IF n > 0 THEN h[firstAlt].elements[1] ELSE 0
    IN  IF /\ h[node].type = "Group"
           /\ Len(h[node].alternatives) = 1
           /\ n = 1
           /\ h[firstAltFirstEl].type = "Group"
           /\ ~(h[node].atomic /\ h[firstAltFirstEl].flags # NoFlags)
           /\ ~(h[node].flags # NoFlags /\ h[firstAltFirstEl].flags # NoFlags)
        THEN [heap |-> [h EXCEPT
                  ![firstAltFirstEl].parent = h[node].parent,
                  ![firstAltFirstEl].atomic =
                      IF h[node].atomic THEN TRUE ELSE @,
                  ![firstAltFirstEl].flags =
                      IF ~h[node].atomic /\ h[node].flags # NoFlags
                      THEN h[node].flags ELSE @],
              node |-> firstAltFirstEl]
        ELSE [heap |-> h, node |-> node]

\* [heap, node]: the group that stands for group "node" after the rewrite.
getOptimizedGroup(h, node) ==
    LET firstAlt == h[node].alternatives[1]
        n == Len(h[firstAlt].elements)
        firstAltFirstEl == IF n > 0 THEN h[firstAlt].elements[1] ELSE 0
    IN  IF /\ h[node].type = "Group"
           /\ Len(h[node].alternatives) = 1
           /\ n = 1
           /\ h[firstAltFirstEl].type = "Group"
           /\ ~(h[node].atomic /\ h[firstAltFirstEl].flags # NoFlags)
           /\ ~(h[node].flags # NoFlags /\
                  (h[firstAltFirstEl].atomic \/ h[firstAltFirstEl].flags # NoFlags))
        THEN [heap |-> [h EXCEPT
                  ![firstAltFirstEl].parent = h[node].parent,
                  ![firstAltFirstEl].atomic =
                      IF h[node].atomic THEN TRUE ELSE @,
                  ![firstAltFirstEl].flags =
                      IF ~h[node].atomic /\ h[node].flags # NoFlags
                      THEN h[node].flags ELSE @],
              node |-> firstAltFirstEl]
        ELSE [heap |-> h, node |-> node]

\* The loop of optimizeCharacterClassIntersection from class index i on.
RECURSIVE OptimizeClassesFrom(_, _, _)
OptimizeClassesFrom(h, intersection, i) ==
    IF i > Len(h[intersection].classes) THEN h
    ELSE LET cc == h[intersection].classes[i]
             firstChild == IF h[cc].elements # <<>> THEN h[cc].elements[1] ELSE 0
         IN  IF Len(h[cc].elements) = 1 /\ h[firstChild].type = "CharacterClass"
             THEN OptimizeClassesFrom(
                      [h EXCEPT ![intersection].classes[i] = firstChild,
                                ![firstChild].parent = intersection,
                                ![firstChild].negate = (h[cc].negate # @)],
                      intersection, i + 1)
             ELSE OptimizeClassesFrom(h, intersection, i + 1)

optimizeCharacterClassIntersection(h, intersection) ==
    OptimizeClassesFrom(h, intersection, 1)

\* fromNum with the count of groups checked for absolute numbers only.
fromNumAbsoluteChecked(num, isRelative, numCapsToLeft) ==
    IF ~isRelative /\ num > numCapsToLeft
    THEN [error |-> "InsufficientGroups", ref |-> NoRef]
    ELSE [error |-> "",
          ref   |-> NumRef(IF isRelative THEN numCapsToLeft + 1 - num ELSE num)]

\* fromNum of parseBackreference: [error, ref].
fromNum(num, isRelative, numCapsToLeft) ==
    IF num > numCapsToLeft
    THEN [error |-> "InsufficientGroups", ref |-> NoRef]
    ELSE [error |-> "",
          ref   |-> NumRef(IF isRelative THEN numCapsToLeft + 1 - num ELSE num)]

\* BackreferenceRef taking + for a sign as SubroutineRef does.
BackreferenceRefPlusSigned(raw, numCapsToLeft, named) ==
    LET hasKWrapper == /\ Len(raw) >= 3
                       /\ raw[1] = "\\" /\ raw[2] = "k" /\ raw[3] \in {"<", "'"}
        ref == IF hasKWrapper THEN Slice(raw, 3, 1) ELSE Slice(raw, 1, 0)
        numberedRef == NumberedRefBy({"-", "+"}, ref)
    IN  IF hasKWrapper
        THEN IF numberedRef.matched
             THEN fromNum(ToNumber(numberedRef.num), numberedRef.sign # "",
                          numCapsToLeft)
             ELSE IF \E i \in 1..Len(ref) : ref[i] \in {"-", "+"}
             THEN [error |-> "InvalidBackrefName", ref |-> NoRef]
             ELSE IF ref \notin named
             THEN [error |-> "UndefinedGroupName", ref |-> NoRef]
             ELSE [error |-> "", ref |-> NameRef(ref)]
        ELSE fromNum(ToNumber(ref), FALSE, numCapsToLeft)

\* The ref of parseBackreference: [error, ref]; named holds the keys of
\* context.namedGroups.
BackreferenceRef(raw, numCapsToLeft, named) ==
    LET hasKWrapper == /\ Len(raw) >= 3
                       /\ raw[1] = "\\" /\ raw[2] = "k" /\ raw[3] \in {"<", "'"}
        ref == IF hasKWrapper THEN Slice(raw, 3, 1) ELSE Slice(raw, 1, 0)
        numberedRef == NumberedRefBy({"-"}, ref)
    IN  IF hasKWrapper
        THEN IF numberedRef.matched
             THEN fromNum(ToNumber(numberedRef.num), numberedRef.sign # "",
                          numCapsToLeft)
             ELSE IF \E i \in 1..Len(ref) : ref[i] \in {"-", "+"}
             THEN [error |-> "InvalidBackrefName", ref |-> NoRef]
             ELSE IF ref \notin named
             THEN [error |-> "UndefinedGroupName", ref |-> NoRef]
             ELSE [error |-> "", ref |-> NameRef(ref)]
        ELSE fromNum(ToNumber(ref), FALSE, numCapsToLeft)

\* SubroutineRef with a - reference counted from the last group opened
\* instead of from the position after it.
SubroutineRefMinusFromLast(raw, numCapsToLeft) ==
    LET ref == Slice(raw, 3, 1)
        numberedRef == NumberedRefBy({"-", "+"}, ref)
        num == ToNumber(numberedRef.num)
    IN  IF numberedRef.matched
        THEN NumRef(CASE numberedRef.sign = "" -> num
                      [] numberedRef.sign = "+" -> numCapsToLeft + num
                      [] numberedRef.sign = "-" -> numCapsToLeft - num)
        ELSE NameRef(ref)

\* The ref of parseSubroutine.
SubroutineRef(raw, numCapsToLeft) ==
    LET ref == Slice(raw, 3, 1)
        numberedRef == NumberedRefBy({"-", "+"}, ref)
        num == ToNumber(numberedRef.num)
    IN  IF numberedRef.matched
        THEN NumRef(CASE numberedRef.sign = "" -> num
                      [] numberedRef.sign = "+" -> numCapsToLeft + num
                      [] numberedRef.sign = "-" -> numCapsToLeft + 1 - num)
        ELSE NameRef(ref)

----------------------------------------------------------------------------
(* The state of one call of parse *)

\* The names a capturing GroupOpen token of the model can carry.
GroupNames == {<<"a">>, <<"b">>}

\* The flags argument; its values are carried into the Flags node unread.
InputFlags == [ignoreCase |-> FALSE, dotAll |-> FALSE, extended |-> FALSE]

\* No call of parse has gone before.
NoCall == [pc |-> "", err |-> "", nodes |-> <<>>]

Init ==
    /\ tokens = <<>>
    /\ ended = FALSE
    /\ optimize \in BOOLEAN
    /\ current = 0
    /\ nodes = createRegExp(0, InputFlags)
    /\ tokenOf = <<0, 0, 0, 0>>
    /\ capturingGroups = <<>>
    /\ namedGroups = [n \in GroupNames |-> <<>>]
    /\ subroutines = <<>>
    /\ hasNumberedGroupRef = FALSE
    /\ top = nodes[nodes[1].pattern].alternatives[1]
    /\ stack = <<>>
    /\ ret = 0
    /\ pc = "run"
    /\ err = ""
    /\ earlier = NoCall

HasToken == current < Len(tokens)
\* tokens[context.current]
NextToken == tokens[current + 1]

\* How far the parser's next step looks: parseCharacterClassHyphen reads the
\* token after the hyphen that walk has just consumed.
Wanted ==
    IF HasToken /\ NextToken.type = "CharacterClassHyphen"
    THEN current + 2 ELSE current + 1

\* The parser's next step reads only tokens that are known.
Ready == pc = "run" /\ ret = 0 /\ (ended \/ Len(tokens) >= Wanted)

\* namedGroups.has(name)
Has(name) == name \in DOMAIN namedGroups /\ namedGroups[name] # <<>>
NamedKeys == {n \in DOMAIN namedGroups : namedGroups[n] # <<>>}

Frame == stack[Len(stack)]
GroupFrame(node) == [kind |-> "group", node |-> node, parent |-> 0, prev |-> 0]
ClassFrame(node, parent) ==
    [kind |-> "class", node |-> node, parent |-> parent, prev |-> 0]
HyphenFrame(parent, prev) ==
    [kind |-> "hyphen", node |-> 0, parent |-> parent, prev |-> prev]
Pop(s) == SubSeq(s, 1, Len(s) - 1)

Last(s) == s[Len(s)]
\* The intersection of the class a class frame is parsing.
IntersectionOf(f) == nodes[f.node].elements[1]

\* A place where the code calls context.walk: the loop of parse, the else
\* branch of the loops of parseGroupOpen and parseCharacterClassOpen, and
\* parseCharacterClassHyphen's walk for the right-hand side.
WalkSite ==
    /\ Ready
    /\ HasToken
    /\ \/ stack = <<>>
       \/ /\ stack # <<>> /\ Frame.kind = "group"
          /\ NextToken.type \notin {"GroupClose", "Alternator"}
       \/ /\ stack # <<>> /\ Frame.kind = "class"
          /\ NextToken.type \notin
                 {"CharacterClassClose", "CharacterClassIntersector"}
       \/ stack # <<>> /\ Frame.kind = "hyphen"

\* The argument "parent" of that call.
WalkParent ==
    IF stack = <<>> THEN top
    ELSE CASE Frame.kind = "group" -> Last(nodes[Frame.node].alternatives)
           [] Frame.kind = "class" -> Last(nodes[IntersectionOf(Frame)].classes)
           [] Frame.kind = "hyphen" -> Frame.parent

Walk(type) == WalkSite /\ NextToken.type = type

\* History: the objects added to the heap belong to token number index.
Grown(h, index) == tokenOf \o [i \in 1..(Len(h) - Len(tokenOf)) |-> index]

Context == <<capturingGroups, namedGroups, subroutines, hasNumberedGroupRef>>

\* An error thrown outside walk.
Throw(error) ==
    /\ pc' = "error"
    /\ err' = error
    /\ UNCHANGED <<tokens, ended, optimize, earlier, current, nodes, tokenOf, Context,
                   top, stack, ret>>

\* An error thrown by walk or a function it calls: the token is consumed.
WalkThrow(error) ==
    /\ pc' = "error"
    /\ err' = error
    /\ current' = current + 1
    /\ UNCHANGED <<tokens, ended, optimize, earlier, nodes, tokenOf, Context,
                   top, stack, ret>>

\* walk consumed the token and returns object id of the heap h.
Return(h, id) ==
    /\ current' = current + 1
    /\ nodes' = h
    /\ tokenOf' = Grown(h, current + 1)
    /\ ret' = id
    /\ UNCHANGED <<tokens, ended, optimize, earlier, top, stack, pc, err>>

\* walk consumed the token and returns the new object node.
ReturnNew(node) == Return(New(nodes, node), Len(nodes) + 1)

\* A leaf token: walk returns the node made from it, or throws.
Leaf(r) ==
    IF r.error # "" THEN WalkThrow(r.error)
    ELSE ReturnNew(r.node) /\ UNCHANGED Context

----------------------------------------------------------------------------
(* The tokenizer (tokenizer.js), seen from parse: one more token, or none. *)

Tokenize(outer, class) ==
    /\ pc = "run" /\ ret = 0 /\ ~ended
    /\ Len(tokens) < Wanted
    /\ Len(tokens) < MaxTokens
    /\ \E t \in (IF LexClassDepth(tokens) = 0 THEN outer ELSE class) :
          tokens' = Append(tokens,
              IF IsCapturingOpen(t)
              THEN [t EXCEPT !.number = CapturingOpens(Len(tokens)) + 1]
              ELSE t)
    /\ UNCHANGED <<ended, optimize, earlier, current, nodes, tokenOf, Context, top,
                   stack, ret, pc, err>>

\* As Tokenize, with the number of a capturing GroupOpen token left open.
TokenizeNumbered(outer, class) ==
    /\ pc = "run" /\ ret = 0 /\ ~ended
    /\ Len(tokens) < Wanted
    /\ Len(tokens) < MaxTokens
    /\ \E t \in (IF LexClassDepth(tokens) = 0 THEN outer ELSE class) :
          \E n \in (IF IsCapturingOpen(t) THEN 1..MaxNumber ELSE {0}) :
              tokens' = Append(tokens, [t EXCEPT !.number = n])
    /\ UNCHANGED <<ended, optimize, earlier, current, nodes, tokenOf, Context, top,
                   stack, ret, pc, err>>

EndOfTokens ==
    /\ pc = "run" /\ ret = 0 /\ ~ended
    /\ Len(tokens) < Wanted
    /\ ended' = TRUE
    /\ UNCHANGED <<tokens, optimize, earlier, current, nodes, tokenOf, Context, top,
                   stack, ret, pc, err>>

----------------------------------------------------------------------------
(* context.walk, one action per case of its switch *)

walkAlternator ==
    /\ Walk("Alternator")
    /\ ReturnNew(createAlternative(nodes[WalkParent].parent))
    /\ UNCHANGED Context

walkAssertion ==
    /\ Walk("Assertion")
    /\ Leaf(createAssertionFromToken(WalkParent, NextToken))

walkCharacter ==
    /\ Walk("Character")
    /\ ReturnNew(createCharacter(WalkParent, NextToken.value))
    /\ UNCHANGED Context

walkCharacterSet ==
    /\ Walk("CharacterSet")
    /\ Leaf(createCharacterSetFromToken(WalkParent, NextToken))

walkDirective ==
    /\ Walk("Directive")
    /\ Leaf(createDirectiveFromToken(WalkParent, NextToken))

walkVariableLengthCharacterSet ==
    /\ Walk("VariableLengthCharacterSet")
    /\ Leaf(createVariableLengthCharacterSet(WalkParent, NextToken.kind))

WalkTypes ==
    {"Alternator", "Assertion", "Backreference", "Character",
     "CharacterClassHyphen", "CharacterClassOpen", "CharacterSet", "Directive",
     "GroupOpen", "Quantifier", "Subroutine", "VariableLengthCharacterSet"}

\* The default case taking the token for a character.
walkUnexpectedAsCharacter ==
    /\ WalkSite
    /\ NextToken.type \notin WalkTypes
    /\ ReturnNew(createCharacter(WalkParent, 41))
    /\ UNCHANGED Context

\* The default case.
walkUnexpected ==
    /\ WalkSite
    /\ NextToken.type \notin WalkTypes
    /\ WalkThrow("UnexpectedToken")

parseBackreference ==
    /\ Walk("Backreference")
    /\ LET r == BackreferenceRef(NextToken.raw, Len(capturingGroups), NamedKeys)
       IN  IF r.error # "" THEN WalkThrow(r.error)
           ELSE /\ ReturnNew(createBackreference(WalkParent, r.ref))
                /\ hasNumberedGroupRef' = (hasNumberedGroupRef \/ r.ref.numeric)
                /\ UNCHANGED <<capturingGroups, namedGroups, subroutines>>

\* parseSubroutine entering the subroutine in context.capturingGroups.
parseSubroutineRegistered ==
    /\ Walk("Subroutine")
    /\ LET ref == SubroutineRef(NextToken.raw, Len(capturingGroups))
       IN  /\ ReturnNew(createSubroutine(WalkParent, ref))
           /\ hasNumberedGroupRef' = (hasNumberedGroupRef \/ ref.numeric)
           /\ subroutines' = Append(subroutines, Len(nodes) + 1)
           /\ capturingGroups' = Append(capturingGroups, Len(nodes) + 1)
           /\ UNCHANGED namedGroups

parseSubroutine ==
    /\ Walk("Subroutine")
    /\ LET ref == SubroutineRef(NextToken.raw, Len(capturingGroups))
       IN  /\ ReturnNew(createSubroutine(WalkParent, ref))
           /\ hasNumberedGroupRef' = (hasNumberedGroupRef \/ ref.numeric)
           /\ subroutines' = Append(subroutines, Len(nodes) + 1)
           /\ UNCHANGED <<capturingGroups, namedGroups>>

\* parseQuantifier taking the first element of the alternative.
parseQuantifierFirst ==
    /\ Walk("Quantifier")
    /\ LET parent == WalkParent
           token == NextToken
       IN  IF nodes[parent].elements = <<>> THEN WalkThrow("NothingToRepeat")
           ELSE LET element == nodes[parent].elements[1]
                    r == createQuantifier(nodes, parent, element, token.min,
                             token.max, token.greedy, token.possessive)
                    id == Len(nodes) + 1
                IN  IF r.error # "" THEN WalkThrow(r.error)
                    ELSE /\ Return([New(nodes, r.node) EXCEPT
                                       ![element].parent = id,
                                       ![parent].elements = Pop(@)], id)
                         /\ UNCHANGED Context

parseQuantifier ==
    /\ Walk("Quantifier")
    /\ LET parent == WalkParent
           token == NextToken
       IN  IF nodes[parent].elements = <<>> THEN WalkThrow("NothingToRepeat")
           ELSE LET element == Last(nodes[parent].elements)
                    r == createQuantifier(nodes, parent, element, token.min,
                             token.max, token.greedy, token.possessive)
                    id == Len(nodes) + 1
                IN  IF r.error # "" THEN WalkThrow(r.error)
                    ELSE /\ Return([New(nodes, r.node) EXCEPT
                                       ![element].parent = id,
                                       ![parent].elements = Pop(@)], id)
                         /\ UNCHANGED Context

----------------------------------------------------------------------------
(* parseGroupOpen *)

\* parseGroupOpen that enters a capturing group in the numbered list only.
parseGroupOpenNumberedOnly ==
    /\ Walk("GroupOpen")
    /\ LET r == createByGroupKind(WalkParent, NextToken)
           id == Len(nodes) + 1
           h == withInitialAlternative(nodes, r.node)
       IN  IF r.error # "" THEN WalkThrow(r.error)
           ELSE /\ current' = current + 1
                /\ nodes' = h
                /\ tokenOf' = Grown(h, current + 1)
                /\ capturingGroups' =
                       IF r.node.type = "CapturingGroup"
                       THEN Append(capturingGroups, id) ELSE capturingGroups
                /\ stack' = Append(stack, GroupFrame(id))
                /\ UNCHANGED <<tokens, ended, optimize, earlier, namedGroups,
                               subroutines, hasNumberedGroupRef, top, ret, pc,
                               err>>

\* Up to the loop: the node, its registration, and the activation.
parseGroupOpen ==
    /\ Walk("GroupOpen")
    /\ LET r == createByGroupKind(WalkParent, NextToken)
           id == Len(nodes) + 1
           h == withInitialAlternative(nodes, r.node)
       IN  IF r.error # "" THEN WalkThrow(r.error)
           ELSE /\ current' = current + 1
                /\ nodes' = h
                /\ tokenOf' = Grown(h, current + 1)
                /\ IF r.node.type = "CapturingGroup"
                   THEN /\ capturingGroups' = Append(capturingGroups, id)
                        /\ namedGroups' =
                               IF r.node.name # Undefined
                               THEN [namedGroups EXCEPT
                                        ![r.node.name] = Append(@, id)]
                               ELSE namedGroups
                   ELSE UNCHANGED <<capturingGroups, namedGroups>>
                /\ stack' = Append(stack, GroupFrame(id))
                /\ UNCHANGED <<tokens, ended, optimize, earlier, subroutines,
                               hasNumberedGroupRef, top, ret, pc, err>>

InGroup == Ready /\ stack # <<>> /\ Frame.kind = "group"

\* throwIfUnclosedGroup(tokens[context.current])
groupUnclosed ==
    /\ InGroup
    /\ ~HasToken
    /\ Throw("UnclosedGroup")

\* groupAlternator without the skip of the alternator.
groupAlternatorUnskipped ==
    /\ InGroup
    /\ HasToken
    /\ NextToken.type = "Alternator"
    /\ LET h == New(nodes, createAlternative(Frame.node))
       IN  /\ nodes' = [h EXCEPT ![Frame.node].alternatives =
                                      Append(@, Len(nodes) + 1)]
           /\ tokenOf' = Grown(h, current + 1)
    /\ UNCHANGED <<tokens, ended, optimize, earlier, current, Context, top,
                   stack, ret, pc, err>>

\* The loop's Alternator branch.
groupAlternator ==
    /\ InGroup
    /\ HasToken
    /\ NextToken.type = "Alternator"
    /\ LET h == New(nodes, createAlternative(Frame.node))
       IN  /\ nodes' = [h EXCEPT ![Frame.node].alternatives =
                                      Append(@, Len(nodes) + 1)]
           /\ tokenOf' = Grown(h, current + 1)
    /\ current' = current + 1
    /\ UNCHANGED <<tokens, ended, optimize, earlier, Context, top, stack, ret, pc, err>>

\* groupPush into the group's first alternative.
groupPushFirst ==
    /\ pc = "run" /\ ret # 0
    /\ stack # <<>> /\ Frame.kind = "group"
    /\ LET alt == nodes[Frame.node].alternatives[1]
       IN  nodes' = [nodes EXCEPT ![alt].elements = Append(@, ret)]
    /\ ret' = 0
    /\ UNCHANGED <<tokens, ended, optimize, earlier, current, tokenOf, Context,
                   top, stack, pc, err>>

\* The loop's else branch, after walk has returned.
groupPush ==
    /\ pc = "run" /\ ret # 0
    /\ stack # <<>> /\ Frame.kind = "group"
    /\ LET alt == Last(nodes[Frame.node].alternatives)
       IN  nodes' = [nodes EXCEPT ![alt].elements = Append(@, ret)]
    /\ ret' = 0
    /\ UNCHANGED <<tokens, ended, optimize, earlier, current, tokenOf, Context, top,
                   stack, pc, err>>

\* groupClose leaving the closing parenthesis unread when the group was
\* replaced by its child.
groupCloseOptimizedUnskipped ==
    /\ InGroup
    /\ HasToken
    /\ NextToken.type = "GroupClose"
    /\ LET r == IF optimize THEN getOptimizedGroup(nodes, Frame.node)
                ELSE [heap |-> nodes, node |-> Frame.node]
       IN  /\ nodes' = r.heap
           /\ ret' = r.node
           /\ current' = IF r.node = Frame.node THEN current + 1 ELSE current
    /\ stack' = Pop(stack)
    /\ UNCHANGED <<tokens, ended, optimize, earlier, tokenOf, Context, top,
                   pc, err>>

\* From the end of the loop to the return.
groupClose ==
    /\ InGroup
    /\ HasToken
    /\ NextToken.type = "GroupClose"
    /\ LET r == IF optimize THEN getOptimizedGroup(nodes, Frame.node)
                ELSE [heap |-> nodes, node |-> Frame.node]
       IN  /\ nodes' = r.heap
           /\ ret' = r.node
    /\ current' = current + 1
    /\ stack' = Pop(stack)
    /\ UNCHANGED <<tokens, ended, optimize, earlier, tokenOf, Context, top, pc, err>>

----------------------------------------------------------------------------
(* parseCharacterClassOpen *)

parseCharacterClassOpen ==
    /\ Walk("CharacterClassOpen")
    /\ LET h == createCharacterClass(nodes, WalkParent, NextToken.negate)
       IN  /\ nodes' = h
           /\ tokenOf' = Grown(h, current + 1)
           /\ stack' = Append(stack, ClassFrame(Len(nodes) + 1, WalkParent))
    /\ current' = current + 1
    /\ UNCHANGED <<tokens, ended, optimize, earlier, Context, top, ret, pc, err>>

InClass == Ready /\ stack # <<>> /\ Frame.kind = "class"

\* classUnclosed throwing the error of an unclosed group.
classUnclosedAsGroup ==
    /\ InClass
    /\ ~HasToken
    /\ Throw("UnclosedGroup")

\* throwIfUnclosedCharacterClass(tokens[context.current])
classUnclosed ==
    /\ InClass
    /\ ~HasToken
    /\ Throw("UnclosedClass")

\* The loop's CharacterClassIntersector branch.
classIntersector ==
    /\ InClass
    /\ HasToken
    /\ NextToken.type = "CharacterClassIntersector"
    /\ LET intersection == IntersectionOf(Frame)
           h == New(nodes, createCharacterClassBase(intersection, FALSE))
       IN  /\ nodes' = [h EXCEPT ![intersection].classes =
                                      Append(@, Len(nodes) + 1)]
           /\ tokenOf' = Grown(h, current + 1)
    /\ current' = current + 1
    /\ UNCHANGED <<tokens, ended, optimize, earlier, Context, top, stack, ret, pc, err>>

\* The loop's else branch, after walk has returned.
classPush ==
    /\ pc = "run" /\ ret # 0
    /\ stack # <<>> /\ Frame.kind = "class"
    /\ LET cc == Last(nodes[IntersectionOf(Frame)].classes)
       IN  nodes' = [nodes EXCEPT ![cc].elements = Append(@, ret)]
    /\ ret' = 0
    /\ UNCHANGED <<tokens, ended, optimize, earlier, current, tokenOf, Context, top,
                   stack, pc, err>>

\* CloseCharacterClass with the intersection wrapper kept unless optimize is
\* on.
CloseCharacterClassWrapped(h, node, parent, opt) ==
    LET intersection == h[node].elements[1]
        h1 == IF opt THEN optimizeCharacterClassIntersection(h, intersection)
              ELSE h
        cc == h1[intersection].classes[1]
    IN  IF opt /\ Len(h1[intersection].classes) = 1
        THEN [heap |-> [h1 EXCEPT ![cc].parent = parent,
                                  ![cc].negate = (h1[node].negate # @)],
              node |-> cc]
        ELSE [heap |-> h1, node |-> node]

\* CloseCharacterClass with the hoisted class given the outer negate.
CloseCharacterClassOuterNegate(h, node, parent, opt) ==
    LET intersection == h[node].elements[1]
        h1 == IF opt THEN optimizeCharacterClassIntersection(h, intersection)
              ELSE h
        cc == h1[intersection].classes[1]
    IN  IF Len(h1[intersection].classes) = 1
        THEN [heap |-> [h1 EXCEPT ![cc].parent = parent,
                                  ![cc].negate = h1[node].negate],
              node |-> cc]
        ELSE [heap |-> h1, node |-> node]

\* CloseCharacterClass returning the class it created in every case.
CloseCharacterClassKept(h, node, parent, opt) ==
    LET intersection == h[node].elements[1]
        h1 == IF opt THEN optimizeCharacterClassIntersection(h, intersection)
              ELSE h
    IN  [heap |-> h1, node |-> node]

\* [heap, node]: parseCharacterClassOpen from the end of its loop, for the
\* class node it created with the argument parent.
CloseCharacterClass(h, node, parent, opt) ==
    LET intersection == h[node].elements[1]
        h1 == IF opt THEN optimizeCharacterClassIntersection(h, intersection)
              ELSE h
        cc == h1[intersection].classes[1]
    IN  IF Len(h1[intersection].classes) = 1
        THEN [heap |-> [h1 EXCEPT ![cc].parent = parent,
                                  ![cc].negate = (h1[node].negate # @)],
              node |-> cc]
        ELSE [heap |-> h1, node |-> node]

classClose ==
    /\ InClass
    /\ HasToken
    /\ NextToken.type = "CharacterClassClose"
    /\ LET r == CloseCharacterClass(nodes, Frame.node, Frame.parent, optimize)
       IN  /\ nodes' = r.heap
           /\ ret' = r.node
    /\ current' = current + 1
    /\ stack' = Pop(stack)
    /\ UNCHANGED <<tokens, ended, optimize, earlier, tokenOf, Context, top, pc, err>>

----------------------------------------------------------------------------
(* parseCharacterClassHyphen *)

\* parseCharacterClassHyphen taking a class as the left side of a range.
parseCharacterClassHyphenAfterClass ==
    /\ Walk("CharacterClassHyphen")
    /\ LET parent == WalkParent
           prevNode == IF nodes[parent].elements # <<>>
                       THEN Last(nodes[parent].elements) ELSE 0
           hasNext == current + 1 < Len(tokens)
           nextType == IF hasNext THEN tokens[current + 2].type ELSE ""
       IN  IF /\ prevNode # 0
              /\ hasNext
              /\ nextType \notin {"CharacterClassOpen", "CharacterClassClose",
                                  "CharacterClassIntersector"}
           THEN /\ current' = current + 1
                /\ stack' = Append(stack, HyphenFrame(parent, prevNode))
                /\ UNCHANGED <<tokens, ended, optimize, earlier, nodes, tokenOf,
                               Context, top, ret, pc, err>>
           ELSE /\ ReturnNew(createCharacter(parent, 45))
                /\ UNCHANGED Context

\* Up to the walk for the right-hand side, or the literal hyphen.
parseCharacterClassHyphen ==
    /\ Walk("CharacterClassHyphen")
    /\ LET parent == WalkParent
           prevNode == IF nodes[parent].elements # <<>>
                       THEN Last(nodes[parent].elements) ELSE 0
           hasNext == current + 1 < Len(tokens)
           nextType == IF hasNext THEN tokens[current + 2].type ELSE ""
       IN  IF /\ prevNode # 0
              /\ nodes[prevNode].type # "CharacterClass"
              /\ hasNext
              /\ nextType \notin {"CharacterClassOpen", "CharacterClassClose",
                                  "CharacterClassIntersector"}
           THEN /\ current' = current + 1
                /\ stack' = Append(stack, HyphenFrame(parent, prevNode))
                /\ UNCHANGED <<tokens, ended, optimize, earlier, nodes, tokenOf, Context,
                               top, ret, pc, err>>
           ELSE /\ ReturnNew(createCharacter(parent, 45))
                /\ UNCHANGED Context

\* hyphenRange returning the hyphen itself when neither side is a Character.
hyphenRangeLenient ==
    /\ pc = "run" /\ ret # 0
    /\ stack # <<>> /\ Frame.kind = "hyphen"
    /\ LET parent == Frame.parent
           prevNode == Frame.prev
           nextNode == ret
           r == createCharacterClassRange(nodes, parent, prevNode, nextNode)
           id == Len(nodes) + 1
       IN  IF nodes[prevNode].type = "Character" /\ nodes[nextNode].type = "Character"
           THEN IF r.error # "" THEN Throw(r.error)
                ELSE LET h == [New(nodes, r.node) EXCEPT
                                  ![parent].elements = Pop(@),
                                  ![prevNode].parent = id,
                                  ![nextNode].parent = id]
                     IN  /\ nodes' = h
                         /\ tokenOf' = Grown(h, current)
                         /\ ret' = id
                         /\ stack' = Pop(stack)
                         /\ UNCHANGED <<tokens, ended, optimize, earlier, current,
                                        Context, top, pc, err>>
           ELSE IF nodes[prevNode].type = "Character" \/ nodes[nextNode].type = "Character"
           THEN Throw("InvalidRange")
           ELSE LET h == New(nodes, createCharacter(parent, 45))
                IN  /\ nodes' = h
                    /\ tokenOf' = Grown(h, current)
                    /\ ret' = id
                    /\ stack' = Pop(stack)
                    /\ UNCHANGED <<tokens, ended, optimize, earlier, current,
                                   Context, top, pc, err>>

\* After the walk for the right-hand side has returned.
hyphenRange ==
    /\ pc = "run" /\ ret # 0
    /\ stack # <<>> /\ Frame.kind = "hyphen"
    /\ LET parent == Frame.parent
           prevNode == Frame.prev
           nextNode == ret
           r == createCharacterClassRange(nodes, parent, prevNode, nextNode)
           id == Len(nodes) + 1
       IN  IF nodes[prevNode].type = "Character" /\ nodes[nextNode].type = "Character"
           THEN IF r.error # "" THEN Throw(r.error)
                ELSE LET h == [New(nodes, r.node) EXCEPT
                                  ![parent].elements = Pop(@),
                                  ![prevNode].parent = id,
                                  ![nextNode].parent = id]
                     IN  /\ nodes' = h
                         /\ tokenOf' = Grown(h, current)
                         /\ ret' = id
                         /\ stack' = Pop(stack)
                         /\ UNCHANGED <<tokens, ended, optimize, earlier, current,
                                        Context, top, pc, err>>
           ELSE Throw("InvalidRange")

----------------------------------------------------------------------------
(* parse *)

\* The body of the loop after walk has returned.
topPush ==
    /\ pc = "run" /\ ret # 0
    /\ stack = <<>>
    /\ IF nodes[ret].type = "Alternative"
       THEN /\ nodes' = [nodes EXCEPT ![nodes[1].pattern].alternatives =
                                          Append(@, ret)]
            /\ top' = ret
       ELSE /\ nodes' = [nodes EXCEPT ![top].elements = Append(@, ret)]
            /\ top' = top
    /\ ret' = 0
    /\ UNCHANGED <<tokens, ended, optimize, earlier, current, tokenOf, Context, stack,
                   pc, err>>

\* The loop over context.subroutines from index i: the error thrown, or "".
RECURSIVE SubroutinesFrom(_, _, _, _, _)
SubroutinesFrom(h, subs, groups, named, i) ==
    IF i > Len(subs) THEN ""
    ELSE LET ref == h[subs[i]].ref
         IN  IF ref.numeric
             THEN IF ref.num < 1 \/ ref.num > Len(groups)
                  THEN "SubroutineGroupUndefined"
                  ELSE SubroutinesFrom(h, subs, groups, named, i + 1)
             ELSE IF ~(ref.name \in DOMAIN named /\ named[ref.name] # <<>>)
                  THEN "SubroutineNameUndefined"
             ELSE IF Len(named[ref.name]) > 1
                  THEN "SubroutineNameAmbiguous"
             ELSE SubroutinesFrom(h, subs, groups, named, i + 1)

\* Validate with the upper bound of a subroutine's number off by one.
ValidateOffByOne(h, subs, groups, named, hasNumbered) ==
    IF hasNumbered /\ \E n \in DOMAIN named : named[n] # <<>>
    THEN "NumericRefWithNamedCapture"
    ELSE SubroutinesFrom(h, subs, Append(groups, 0), named, 1)

\* Validate with only the first group of each name kept in the named-groups
\* map.
ValidateFirstOfName(h, subs, groups, named, hasNumbered) ==
    IF hasNumbered /\ \E n \in DOMAIN named : named[n] # <<>>
    THEN "NumericRefWithNamedCapture"
    ELSE SubroutinesFrom(h, subs, groups,
             [n \in DOMAIN named |->
                 IF named[n] = <<>> THEN <<>> ELSE <<named[n][1]>>], 1)

\* Validate without the check of numbered references against named groups.
ValidateUnmixed(h, subs, groups, named, hasNumbered) ==
    SubroutinesFrom(h, subs, groups, named, 1)

\* Validate with the subroutines checked before the mix of numbers and
\* names.
ValidateSubroutinesFirst(h, subs, groups, named, hasNumbered) ==
    LET e == SubroutinesFrom(h, subs, groups, named, 1)
    IN  IF e # "" THEN e
        ELSE IF hasNumbered /\ \E n \in DOMAIN named : named[n] # <<>>
        THEN "NumericRefWithNamedCapture"
        ELSE ""

\* The checks of parse after its loop: the error thrown, or "".
Validate(h, subs, groups, named, hasNumbered) ==
    IF hasNumbered /\ \E n \in DOMAIN named : named[n] # <<>>
    THEN "NumericRefWithNamedCapture"
    ELSE SubroutinesFrom(h, subs, groups, named, 1)

\* The loop of parse ends; the checks; return ast.
parseEnd ==
    /\ Ready
    /\ stack = <<>>
    /\ ~HasToken
    /\ LET e == Validate(nodes, subroutines, capturingGroups, namedGroups,
                         hasNumberedGroupRef)
       IN  /\ pc' = IF e = "" THEN "done" ELSE "error"
           /\ err' = e
    /\ UNCHANGED <<tokens, ended, optimize, earlier, current, nodes, tokenOf, Context,
                   top, stack, ret>>

----------------------------------------------------------------------------
(* Specifications: the parser on the token arrays of one family each.  A   *)
(* family leaves out the token types its claims do not turn on, and its    *)
(* next-state relation the cases of walk no token of the family reaches.   *)

----------------------------------------------------------------------------
(* What an AST holds *)

\* The nodes held by node n's child containers and child fields.
Children(h, n) ==
    {h[n].elements[i] : i \in 1..Len(h[n].elements)}
    \cup {h[n].alternatives[i] : i \in 1..Len(h[n].alternatives)}
    \cup {h[n].classes[i] : i \in 1..Len(h[n].classes)}
    \cup (IF h[n].type = "Quantifier" THEN {h[n].element} ELSE {})
    \cup (IF h[n].type = "CharacterClassRange" THEN {h[n].min, h[n].max} ELSE {})
    \cup (IF h[n].type = "RegExp" THEN {h[n].pattern, h[n].flagsNode} ELSE {})

RECURSIVE ReachFrom(_, _)
ReachFrom(h, S) ==
    LET T == S \cup UNION {Children(h, n) : n \in S}
    IN  IF T = S THEN S ELSE ReachFrom(h, T)

\* The nodes of the AST parse returns: object 1 and all it holds.
Ast == ReachFrom(nodes, {1})

AstOfType(type) == {n \in Ast : nodes[n].type = type}

Returned == pc = "done"

----------------------------------------------------------------------------
(* SpecTree: groups, alternation, quantifiers and character classes. *)

TreeTokens ==
    {TGroup(NoFlags), TGroupOpen("atomic"), TGroupClose, TAlternator,
     TCharacter(97), TQuantifier(0, 1), TCharacterClassOpen(TRUE)}

TreeClassTokens ==
    {TCharacter(97), TCharacterClassOpen(TRUE), TCharacterClassClose,
     TCharacterClassIntersector, TCharacterClassHyphen}

TokenizeTree == Tokenize(TreeTokens, TreeClassTokens)

NextTree ==
    \/ TokenizeTree \/ EndOfTokens
    \/ walkAlternator \/ walkCharacter \/ walkUnexpected \/ parseQuantifier
    \/ parseGroupOpen \/ groupUnclosed \/ groupAlternator \/ groupPush
    \/ groupClose
    \/ parseCharacterClassOpen \/ classUnclosed \/ classIntersector
    \/ classPush \/ classClose
    \/ parseCharacterClassHyphen \/ hyphenRange
    \/ topPush \/ parseEnd

SpecTree == Init /\ [][NextTree]_vars

----------------------------------------------------------------------------
(* What the token array says, read off the tokens alone *)

\* The error kinds of the checks after the loop of parse.
PostPassErrors ==
    {"NumericRefWithNamedCapture", "SubroutineGroupUndefined",
     "SubroutineNameUndefined", "SubroutineNameAmbiguous"}

\* The loop of parse consumed every token without an error.
WalkCompleted == pc = "done" \/ (pc = "error" /\ err \in PostPassErrors)

TokenIndexes == 1..Len(tokens)

IsNamedOpen(t) == IsCapturingOpen(t) /\ t.name # Undefined

\* The text between the brackets of \k<...> and \g<...>.
Inner(raw) == SubSeq(raw, 4, Len(raw) - 1)
\* Its sign and its digits, for a text that is a signed number.
SignOf(text) == IF text[1] \in {"-", "+"} THEN text[1] ELSE ""
MagnitudeOf(text) == ToNumber(IF SignOf(text) = "" THEN text ELSE Tail(text))
IsSignedNumber(text) ==
    /\ text # <<>>
    /\ LET d == IF text[1] \in {"-", "+"} THEN Tail(text) ELSE text
       IN  d # <<>> /\ (\A i \in 1..Len(d) : d[i] \in Digits) /\ ToNumber(d) > 0

IsNumericSubroutine(t) == t.type = "Subroutine" /\ IsSignedNumber(Inner(t.raw))
IsNamedSubroutine(t) == t.type = "Subroutine" /\ ~IsSignedNumber(Inner(t.raw))

----------------------------------------------------------------------------
(* SpecSubroutines: numbered groups and numbered subroutines. *)

SubroutineTokens ==
    {TCapturing(Undefined), TGroupClose,
     TSubroutine(GRaw(<<"1">>)), TSubroutine(GRaw(<<"2">>)),
     TSubroutine(GRaw(<<"-", "1">>)), TSubroutine(GRaw(<<"+", "1">>))}

TokenizeSubroutines == Tokenize(SubroutineTokens, {})

NextSubroutines ==
    \/ TokenizeSubroutines \/ EndOfTokens
    \/ walkUnexpected \/ parseSubroutine
    \/ parseGroupOpen \/ groupUnclosed \/ groupPush \/ groupClose
    \/ topPush \/ parseEnd

SpecSubroutines == Init /\ [][NextSubroutines]_vars

\* C2: when the walk completes on a token array without named groups, the
\* numbered subroutines pass exactly if each resolved number r has
\* 1 <= r <= N, N the count of capturing GroupOpen tokens of the whole
\* array; a number outside fails with SubroutineGroupUndefined.
SubroutineNumberInRange ==
    (WalkCompleted /\ \A i \in TokenIndexes : ~IsNamedOpen(tokens[i])) =>
        LET N == CapturingOpens(Len(tokens))
            subs == {subroutines[j] : j \in 1..Len(subroutines)}
            outside == \E n \in subs : /\ nodes[n].ref.numeric
                                       /\ ~(1 <= nodes[n].ref.num /\ nodes[n].ref.num <= N)
            byName == \E n \in subs : ~nodes[n].ref.numeric
        IN  /\ subs = AstOfType("Subroutine")
            /\ (~outside /\ ~byName) => pc = "done"
            /\ outside => pc = "error"
            /\ (outside /\ ~byName) => err = "SubroutineGroupUndefined"
            /\ err = "SubroutineGroupUndefined" => outside

\* The tokens of (\g<2>()): the target opens after the subroutine, inside
\* the group that holds the subroutine.
SubroutineNumberInRangeWitness ==
    /\ Returned
    /\ Len(tokens) = 5
    /\ IsCapturingOpen(tokens[1]) /\ IsCapturingOpen(tokens[3])
    /\ tokens[2] = TSubroutine(GRaw(<<"2">>))
    /\ \E n \in AstOfType("Subroutine") : nodes[n].ref = NumRef(2)

\* C3: the ref of a numbered Subroutine is n, k + n or k + 1 - n for the
\* signs none, + and -, k the capturing GroupOpen tokens before its token;
\* it keeps that value whatever opens later, so no returned AST comes from
\* a token array with a - reference of magnitude n > k.
SubroutineRefResolved ==
    /\ \A j \in 1..Len(subroutines) :
          LET i == tokenOf[subroutines[j]]
              text == Inner(tokens[i].raw)
              k == CapturingOpens(i)
              n == MagnitudeOf(text)
          IN  /\ IsNumericSubroutine(tokens[i])
              /\ nodes[subroutines[j]].ref =
                     NumRef(CASE SignOf(text) = "" -> n
                              [] SignOf(text) = "+" -> k + n
                              [] SignOf(text) = "-" -> k + 1 - n)
    /\ Returned =>
          \A i \in TokenIndexes :
              (IsNumericSubroutine(tokens[i]) /\ SignOf(Inner(tokens[i].raw)) = "-")
                  => MagnitudeOf(Inner(tokens[i].raw)) <= CapturingOpens(i)

\* The tokens of \g<-1>(): the reference resolved to 0 with no group to its
\* left, and the group that follows did not save it.
SubroutineRefResolvedWitness ==
    /\ pc = "error" /\ err = "SubroutineGroupUndefined"
    /\ Len(tokens) = 3
    /\ tokens[1] = TSubroutine(GRaw(<<"-", "1">>))
    /\ IsCapturingOpen(tokens[2])
    /\ Len(capturingGroups) = 1
    /\ nodes[subroutines[1]].ref = NumRef(0)

----------------------------------------------------------------------------
(* SpecNames: named groups and subroutines by name. *)

NameTokens ==
    {TCapturing(<<"a">>), TCapturing(<<"b">>), TGroupClose,
     TSubroutine(GRaw(<<"a">>)), TSubroutine(GRaw(<<"b">>))}

TokenizeNames == Tokenize(NameTokens, {})

NextNames ==
    \/ TokenizeNames \/ EndOfTokens
    \/ walkUnexpected \/ parseSubroutine
    \/ parseGroupOpen \/ groupUnclosed \/ groupPush \/ groupClose
    \/ topPush \/ parseEnd

SpecNames == Init /\ [][NextNames]_vars

\* The capturing GroupOpen tokens of the whole array that carry name s.
NameCount(s) ==
    Cardinality({i \in TokenIndexes :
                    IsCapturingOpen(tokens[i]) /\ tokens[i].name = s})

\* The Subroutine tokens by name whose name does not occur exactly once.
Offending ==
    {i \in TokenIndexes : /\ IsNamedSubroutine(tokens[i])
                          /\ NameCount(Inner(tokens[i].raw)) # 1}

\* C4: when the walk completes (on a token array without numbered
\* references), parse returns exactly if every Subroutine by name s finds
\* exactly one capturing GroupOpen token named s in the whole array; else it
\* fails for the first subroutine that does not, with SubroutineNameUndefined
\* for no such token and SubroutineNameAmbiguous for two or more.  Names
\* that are duplicated but not called do not count.
SubroutineNameUnique ==
    WalkCompleted =>
        /\ Returned <=> Offending = {}
        /\ Offending # {} =>
               LET i == CHOOSE m \in Offending : \A o \in Offending : m <= o
               IN  err = IF NameCount(Inner(tokens[i].raw)) = 0
                         THEN "SubroutineNameUndefined"
                         ELSE "SubroutineNameAmbiguous"

\* The tokens of (?<a>(?<a>\g<a>)): the duplicates nested in each other and
\* around the subroutine.
SubroutineNameUniqueWitness ==
    /\ pc = "error" /\ err = "SubroutineNameAmbiguous"
    /\ Len(tokens) = 5
    /\ tokens[1].name = <<"a">> /\ tokens[2].name = <<"a">>
    /\ tokens[3] = TSubroutine(GRaw(<<"a">>))

----------------------------------------------------------------------------
(* SpecMixed: named groups with numbered and named references. *)

MixedTokens ==
    {TCapturing(<<"a">>), TGroupClose,
     TBackreference(BareRaw(<<"1">>)), TBackreference(KRaw(<<"-", "1">>)),
     TSubroutine(GRaw(<<"1">>)), TSubroutine(GRaw(<<"a">>))}

TokenizeMixed == Tokenize(MixedTokens, {})

NextMixed ==
    \/ TokenizeMixed \/ EndOfTokens
    \/ walkUnexpected \/ parseBackreference \/ parseSubroutine
    \/ parseGroupOpen \/ groupUnclosed \/ groupPush \/ groupClose
    \/ topPush \/ parseEnd

SpecMixed == Init /\ [][NextMixed]_vars

\* The text of a Backreference token's reference.
RefText(t) == IF t.raw[2] = "k" THEN Inner(t.raw) ELSE Tail(t.raw)

IsNumericBackreference(t) ==
    /\ t.type = "Backreference"
    /\ IsSignedNumber(RefText(t))
    /\ SignOf(RefText(t)) # "+"

IsNumericRefToken(t) == IsNumericBackreference(t) \/ IsNumericSubroutine(t)

HasNamedOpen == \E i \in TokenIndexes : IsNamedOpen(tokens[i])
HasNumericRef == \E i \in TokenIndexes : IsNumericRefToken(tokens[i])

\* No returned AST holds a named CapturingGroup together with a Backreference
\* or Subroutine whose ref is a number.
NoMixedAst ==
    Returned =>
        \/ \A g \in AstOfType("CapturingGroup") : nodes[g].name = Undefined
        \/ \A n \in AstOfType("Backreference") \cup AstOfType("Subroutine") :
               ~nodes[n].ref.numeric

\* C5 as stated: no returned AST mixes them, and every token array with a
\* named capturing group and a numbered reference fails with
\* NumericRefWithNamedCapture.
MixedAlwaysRejected ==
    /\ NoMixedAst
    /\ (pc \in {"done", "error"} /\ HasNamedOpen /\ HasNumericRef) =>
           (pc = "error" /\ err = "NumericRefWithNamedCapture")

\* C5, amended: no returned AST mixes them, and every token array with a
\* named capturing group and a numbered reference on which the walk
\* completes fails with NumericRefWithNamedCapture.
MixedRejectedAfterWalk ==
    /\ NoMixedAst
    /\ (WalkCompleted /\ HasNamedOpen /\ HasNumericRef) =>
           (pc = "error" /\ err = "NumericRefWithNamedCapture")

\* The tokens of \g<1>(?<a>): the numbered reference comes first.
MixedRejectedAfterWalkWitness ==
    /\ pc = "error" /\ err = "NumericRefWithNamedCapture"
    /\ Len(tokens) = 3
    /\ tokens[1] = TSubroutine(GRaw(<<"1">>))
    /\ IsNamedOpen(tokens[2])

----------------------------------------------------------------------------
(* SpecBackrefs: numbered groups and numbered backreferences. *)

BackrefTokens ==
    {TCapturing(Undefined), TGroupClose,
     TBackreference(BareRaw(<<"1">>)), TBackreference(KRaw(<<"0", "2">>)),
     TBackreference(KRaw(<<"-", "1">>)), TBackreference(KRaw(<<"-", "2">>))}

TokenizeBackrefs == Tokenize(BackrefTokens, {})

NextBackrefs ==
    \/ TokenizeBackrefs \/ EndOfTokens
    \/ walkUnexpected \/ parseBackreference
    \/ parseGroupOpen \/ groupUnclosed \/ groupPush \/ groupClose
    \/ topPush \/ parseEnd

SpecBackrefs == Init /\ [][NextBackrefs]_vars

\* C6: a numbered Backreference token of magnitude n, read as token i when k
\* capturing GroupOpen tokens precede it, stops parse with InsufficientGroups
\* if n > k and otherwise makes a Backreference with ref n, or k + 1 - n for
\* the - form; so every Backreference of a returned AST has a number from 1
\* to the count of capturing GroupOpen tokens before its token.
BackreferenceResolved ==
    /\ \A i \in 1..current :
          IsNumericBackreference(tokens[i]) =>
              LET k == CapturingOpens(i)
                  n == MagnitudeOf(RefText(tokens[i]))
              IN  IF n > k
                  THEN pc = "error" /\ err = "InsufficientGroups" /\ current = i
                  ELSE \E b \in 1..Len(nodes) :
                          /\ nodes[b].type = "Backreference"
                          /\ tokenOf[b] = i
                          /\ nodes[b].ref =
                                 NumRef(IF SignOf(RefText(tokens[i])) = "-"
                                        THEN k + 1 - n ELSE n)
    /\ Returned =>
          \A b \in AstOfType("Backreference") :
              /\ nodes[b].ref.numeric
              /\ 1 <= nodes[b].ref.num
              /\ nodes[b].ref.num <= CapturingOpens(tokenOf[b])

\* The tokens of ((\k<-2>)): the relative reference from inside both groups
\* names the outer one.
BackreferenceResolvedWitness ==
    /\ Returned
    /\ Len(tokens) = 5
    /\ tokens[3] = TBackreference(KRaw(<<"-", "2">>))
    /\ \E b \in AstOfType("Backreference") : nodes[b].ref = NumRef(1)

----------------------------------------------------------------------------
(* SpecNumbers: capturing groups whose tokens carry any number. *)

NumberTokens ==
    {TCapturing(Undefined), TGroup(NoFlags), TGroupClose, TCharacter(97)}

TokenizeNumbers == TokenizeNumbered(NumberTokens, {})

NextNumbers ==
    \/ TokenizeNumbers \/ EndOfTokens
    \/ walkCharacter \/ walkUnexpected
    \/ parseGroupOpen \/ groupUnclosed \/ groupPush \/ groupClose
    \/ topPush \/ parseEnd

SpecNumbers == Init /\ [][NextNumbers]_vars

\* The capturing GroupOpen tokens carry the numbers 1, 2, ... in order.
TokensNumberedInOrder ==
    \A i \in TokenIndexes :
        IsCapturingOpen(tokens[i]) => tokens[i].number = CapturingOpens(i)

\* C7 as stated: in every returned AST the number of a CapturingGroup is 1 +
\* the count of capturing GroupOpen tokens before its own, whatever number
\* its token carries.
GroupNumberSequential ==
    Returned =>
        \A g \in AstOfType("CapturingGroup") :
            nodes[g].number = 1 + CapturingOpens(tokenOf[g] - 1)

\* C7, amended: in every returned AST the number of a CapturingGroup is the
\* number its GroupOpen token carries; it is 1 + the count of capturing
\* GroupOpen tokens before its own when the tokens are numbered in order.
GroupNumberFromToken ==
    Returned =>
        \A g \in AstOfType("CapturingGroup") :
            /\ IsCapturingOpen(tokens[tokenOf[g]])
            /\ nodes[g].number = tokens[tokenOf[g]].number
            /\ TokensNumberedInOrder =>
                   nodes[g].number = 1 + CapturingOpens(tokenOf[g] - 1)

\* A returned AST of two capturing groups whose tokens are numbered in
\* order, the second inside the first.
GroupNumberFromTokenWitness ==
    /\ Returned
    /\ TokensNumberedInOrder
    /\ Len(tokens) = 4
    /\ \E g \in AstOfType("CapturingGroup") :
          nodes[g].number = 2 /\ tokenOf[g] = 2

----------------------------------------------------------------------------
(* SpecLookbehind: quantifiers in and out of lookarounds and groups. *)

LookbehindTokens ==
    {TLookaround("lookbehind", FALSE), TLookaround("lookahead", FALSE),
     TCapturing(Undefined), TGroup(NoFlags), TGroupClose, TCharacter(97),
     TQuantifier(0, 1), TQuantifier(2, 2)}

TokenizeLookbehind == Tokenize(LookbehindTokens, {})

NextLookbehind ==
    \/ TokenizeLookbehind \/ EndOfTokens
    \/ walkCharacter \/ walkUnexpected \/ parseQuantifier
    \/ parseGroupOpen \/ groupUnclosed \/ groupPush \/ groupClose
    \/ topPush \/ parseEnd

SpecLookbehind == Init /\ [][NextLookbehind]_vars

\* The kinds of the GroupOpen tokens among the first n tokens that no
\* GroupClose token among them closes, outermost first.
RECURSIVE OpenKinds(_)
OpenKinds(n) ==
    IF n = 0 THEN <<>>
    ELSE LET open == OpenKinds(n - 1)
         IN  CASE tokens[n].type = "GroupOpen" -> Append(open, tokens[n].kind)
               [] tokens[n].type = "GroupClose" /\ open # <<>> -> Pop(open)
               [] OTHER -> open

InLookbehind(i) ==
    \E d \in 1..Len(OpenKinds(i - 1)) : OpenKinds(i - 1)[d] = "lookbehind"

\* Token i follows something to repeat.
HasOperand(i) == i > 1 /\ tokens[i - 1].type \notin {"GroupOpen", "Alternator"}

\* The nodes node a holds, at any depth.
Under(a) == ReachFrom(nodes, {a}) \ {a}

----------------------------------------------------------------------------
(* SpecClasses: character classes, nested and intersected. *)

ClassOuterTokens ==
    {TCharacterClassOpen(FALSE), TCharacterClassOpen(TRUE), TCharacter(97)}

ClassInnerTokens ==
    {TCharacter(97), TCharacterClassOpen(TRUE), TCharacterClassClose,
     TCharacterClassIntersector}

TokenizeClasses == Tokenize(ClassOuterTokens, ClassInnerTokens)

NextClasses ==
    \/ TokenizeClasses \/ EndOfTokens
    \/ walkCharacter
    \/ parseCharacterClassOpen \/ classUnclosed \/ classIntersector
    \/ classPush \/ classClose
    \/ topPush \/ parseEnd

SpecClasses == Init /\ [][NextClasses]_vars

\* The intersector tokens from token j on that lie directly in the brackets
\* being scanned, depth counting the brackets opened since.
RECURSIVE IntersectorsFrom(_, _)
IntersectorsFrom(j, depth) ==
    IF j > Len(tokens) THEN 0
    ELSE CASE tokens[j].type = "CharacterClassOpen" ->
                IntersectorsFrom(j + 1, depth + 1)
           [] tokens[j].type = "CharacterClassClose" ->
                IF depth = 0 THEN 0 ELSE IntersectorsFrom(j + 1, depth - 1)
           [] tokens[j].type = "CharacterClassIntersector" /\ depth = 0 ->
                1 + IntersectorsFrom(j + 1, depth)
           [] OTHER -> IntersectorsFrom(j + 1, depth)

\* The intersector tokens directly in the brackets opened by token i.
DirectIntersectors(i) == IntersectorsFrom(i + 1, 0)

\* The CharacterClassIntersection nodes among the elements of class c.
IntersectionsIn(c) ==
    {j \in 1..Len(nodes[c].elements) :
        nodes[nodes[c].elements[j]].type = "CharacterClassIntersection"}

\* The class node of the AST that stands for the brackets opened by token
\* i: made from that token and not an operand of its own intersection.
BracketNodes(i) ==
    {c \in AstOfType("CharacterClass") :
        tokenOf[c] = i /\ tokenOf[nodes[c].parent] # i}

IsOperand(c) == nodes[nodes[c].parent].type = "CharacterClassIntersection"

\* C9 as stated: with optimize false every CharacterClass of the returned
\* AST holds exactly one CharacterClassIntersection.
EveryClassWrapped ==
    (Returned /\ ~optimize) =>
        \A c \in AstOfType("CharacterClass") :
            Cardinality(IntersectionsIn(c)) = 1

\* C9, amended: with optimize false, the class node of a bracket pair holds
\* exactly one CharacterClassIntersection, as its only element and with one
\* operand class more than intersectors, exactly if its brackets directly
\* hold an intersector token; a class without one and every operand class
\* of an intersection hold their elements directly, without intersection.
ClassWrappedIfIntersected ==
    (Returned /\ ~optimize) =>
        /\ \A c \in AstOfType("CharacterClass") :
              IsOperand(c) \/ \E i \in TokenIndexes : c \in BracketNodes(i)
        /\ \A c \in AstOfType("CharacterClass") :
              IsOperand(c) => IntersectionsIn(c) = {}
        /\ \A i \in TokenIndexes :
              tokens[i].type = "CharacterClassOpen" =>
                  /\ Cardinality(BracketNodes(i)) = 1
                  /\ \A c \in BracketNodes(i) :
                        IF DirectIntersectors(i) = 0
                        THEN IntersectionsIn(c) = {}
                        ELSE /\ IntersectionsIn(c) = {1}
                             /\ Len(nodes[c].elements) = 1
                             /\ Len(nodes[nodes[c].elements[1]].classes) =
                                    DirectIntersectors(i) + 1

\* The tokens of [a] with optimize false: the class returned holds the
\* Character itself.
ClassWrappedIfIntersectedWitness ==
    /\ Returned /\ ~optimize
    /\ Len(tokens) = 3
    /\ tokens[2] = TCharacter(97)
    /\ \E c \in BracketNodes(1) :
          /\ Len(nodes[c].elements) = 1
          /\ nodes[nodes[c].elements[1]].type = "Character"

----------------------------------------------------------------------------
(* SpecGroups: groups of every kind, nested. *)

GroupTokens ==
    {TGroup(NoFlags), TGroup("i"), TGroupOpen("atomic"), TCapturing(Undefined),
     TLookaround("lookahead", FALSE), TGroupClose, TCharacter(97)}

TokenizeGroups == Tokenize(GroupTokens, {})

NextGroups ==
    \/ TokenizeGroups \/ EndOfTokens
    \/ walkCharacter \/ walkUnexpected
    \/ parseGroupOpen \/ groupUnclosed \/ groupPush \/ groupClose
    \/ topPush \/ parseEnd

SpecGroups == Init /\ [][NextGroups]_vars

\* The step in which parseGroupOpen leaves its loop and returns.
GroupCloses ==
    /\ InGroup /\ HasToken /\ NextToken.type = "GroupClose"
    /\ current' = current + 1

\* The group being closed has one alternative with one element, a Group
\* with neither atomic nor flags.
SoleBareGroup(outer) ==
    /\ Len(nodes[outer].alternatives) = 1
    /\ LET els == nodes[nodes[outer].alternatives[1]].elements
       IN  /\ Len(els) = 1
           /\ nodes[els[1]].type = "Group"
           /\ ~nodes[els[1]].atomic
           /\ nodes[els[1]].flags = NoFlags

\* When a group closes with optimize on, a Group whose one alternative
\* holds one element, a Group with neither atomic nor flags, is not
\* returned: its child is, with the parent, atomic and flags of the outer
\* group; a CapturingGroup or lookaround, and with optimize off any group,
\* is returned itself and nothing changes.
ClosedGroupReturned ==
    GroupCloses =>
        LET outer == Frame.node
            inner == nodes[nodes[outer].alternatives[1]].elements[1]
        IN  /\ (optimize /\ nodes[outer].type = "Group" /\ SoleBareGroup(outer)) =>
                   /\ ret' = inner
                   /\ nodes'[inner].parent = nodes[outer].parent
                   /\ nodes'[inner].atomic = nodes[outer].atomic
                   /\ nodes'[inner].flags = nodes[outer].flags
            /\ (~optimize \/ nodes[outer].type # "Group") =>
                   ret' = outer /\ nodes' = nodes

\* What walk returned goes to the end of the container of its parent.
ReturnedIsHeld ==
    (ret # 0 /\ ret' = 0) => Last(nodes'[nodes[ret].parent].elements) = ret

\* C10: with optimize on, a closing Group whose sole element is a Group
\* with neither atomic nor flags is replaced in its parent's container by
\* that child, which takes the outer group's atomic or flags; a closing
\* CapturingGroup or lookaround, and with optimize off any group, stays.
GroupCollapses == [][ClosedGroupReturned /\ ReturnedIsHeld]_vars

\* The tokens of (?>(?:a)) with optimize on: the inner group, now atomic,
\* stands in the top alternative.
GroupCollapsesWitness ==
    /\ Returned /\ optimize
    /\ Len(tokens) = 5
    /\ tokens[1].kind = "atomic"
    /\ nodes[top].elements # <<>>
    /\ LET g == nodes[top].elements[1]
       IN  /\ nodes[g].type = "Group"
           /\ tokenOf[g] = 2
           /\ nodes[g].atomic
           /\ nodes[g].parent = top

----------------------------------------------------------------------------
(* Groups and their only child, read off the tokens *)

\* The GroupClose token from token j on that closes the group being
\* scanned, depth counting the groups opened since; 0 if there is none.
RECURSIVE CloseFrom(_, _)
CloseFrom(j, depth) ==
    IF j > Len(tokens) THEN 0
    ELSE CASE tokens[j].type = "GroupOpen" -> CloseFrom(j + 1, depth + 1)
           [] tokens[j].type = "GroupClose" ->
                IF depth = 0 THEN j ELSE CloseFrom(j + 1, depth - 1)
           [] OTHER -> CloseFrom(j + 1, depth)

\* The GroupClose token of the group opened by token i.
CloseOf(i) == CloseFrom(i + 1, 0)

\* Token i opens a group whose whole body is the group opened by token
\* i + 1.
OnlyChildIsGroup(i) ==
    /\ i + 1 <= Len(tokens)
    /\ tokens[i].type = "GroupOpen" /\ tokens[i + 1].type = "GroupOpen"
    /\ CloseOf(i + 1) # 0
    /\ CloseOf(i) = CloseOf(i + 1) + 1

IsPlainGroupOpen(t) ==
    t.type = "GroupOpen" /\ t.kind = "group" /\ t.flags = NoFlags

\* The Group nodes of the AST made from token i.
GroupsOf(i) == {g \in AstOfType("Group") : tokenOf[g] = i}

\* C11 as stated: with optimize on, a plain Group whose body is one
\* CapturingGroup collapses: no Group node of its token remains in the
\* returned AST.
CapturingChildLifted ==
    (Returned /\ optimize) =>
        \A i \in TokenIndexes :
            (/\ IsPlainGroupOpen(tokens[i])
             /\ OnlyChildIsGroup(i)
             /\ IsCapturingOpen(tokens[i + 1])) => GroupsOf(i) = {}

\* C11, amended: with optimize on, a plain Group whose body is one
\* CapturingGroup does not collapse: the returned AST keeps the Group, its
\* one alternative holding the CapturingGroup, numbered as its token is, as
\* its one element.
CapturingChildKept ==
    (Returned /\ optimize) =>
        \A i \in TokenIndexes :
            (/\ IsPlainGroupOpen(tokens[i])
             /\ OnlyChildIsGroup(i)
             /\ IsCapturingOpen(tokens[i + 1])) =>
                \E g \in GroupsOf(i) :
                    /\ Len(nodes[g].alternatives) = 1
                    /\ LET alt == nodes[g].alternatives[1]
                       IN  /\ Len(nodes[alt].elements) = 1
                           /\ LET c == nodes[alt].elements[1]
                              IN  /\ nodes[c].type = "CapturingGroup"
                                  /\ tokenOf[c] = i + 1
                                  /\ nodes[c].number = tokens[i + 1].number
                                  /\ nodes[c].parent = alt

\* The tokens of (?:(a)) with optimize on: the Group is the element of the
\* top alternative.
CapturingChildKeptWitness ==
    /\ Returned /\ optimize
    /\ Len(tokens) = 5
    /\ IsPlainGroupOpen(tokens[1])
    /\ IsCapturingOpen(tokens[2])
    /\ tokens[3] = TCharacter(97)
    /\ nodes[top].elements # <<>>
    /\ nodes[top].elements[1] \in GroupsOf(1)

\* The step that closes group outer, whose one alternative holds one
\* element, a Group.
ClosesOverGroup(outer) ==
    /\ GroupCloses
    /\ outer = Frame.node
    /\ nodes[outer].type = "Group"
    /\ Len(nodes[outer].alternatives) = 1
    /\ LET els == nodes[nodes[outer].alternatives[1]].elements
       IN  Len(els) = 1 /\ nodes[els[1]].type = "Group"

\* The one element of the one alternative of group g.
OnlyChild(g) == nodes[nodes[g].alternatives[1]].elements[1]

\* Group g of the AST holds one alternative with one element, a Group.
HoldsOneGroup(g) ==
    /\ Len(nodes[g].alternatives) = 1
    /\ Len(nodes[nodes[g].alternatives[1]].elements) = 1
    /\ nodes[OnlyChild(g)].type = "Group"
    /\ nodes[OnlyChild(g)].parent = nodes[g].alternatives[1]

IsAtomicOpen(t) == t.type = "GroupOpen" /\ t.kind = "atomic"
IsFlagsOpen(t) == t.type = "GroupOpen" /\ t.kind = "group" /\ t.flags # NoFlags

\* C12 as stated: with optimize on, an atomic Group whose body is one Group
\* with flags is removed, and the inner Group keeps its flags and
\* becomes atomic.
AtomicMergesIntoFlags ==
    (Returned /\ optimize) =>
        \A i \in TokenIndexes :
            (/\ IsAtomicOpen(tokens[i])
             /\ OnlyChildIsGroup(i)
             /\ IsFlagsOpen(tokens[i + 1])) =>
                /\ GroupsOf(i) = {}
                /\ \E c \in AstOfType("Group") :
                      nodes[c].flags = tokens[i + 1].flags /\ nodes[c].atomic

\* An atomic Group that closes over one Group with flags is returned
\* itself, and nothing changes.
AtomicOverFlagsStays ==
    \A outer \in 1..Len(nodes) :
        (/\ optimize
         /\ ClosesOverGroup(outer)
         /\ nodes[outer].atomic
         /\ nodes[OnlyChild(outer)].flags # NoFlags) =>
            ret' = outer /\ nodes' = nodes

\* In a returned AST the atomic Group of token i is there, without flags,
\* and holds one Group that has flags and is not atomic.
AtomicOverFlagsInAst ==
    (Returned /\ optimize) =>
        \A i \in TokenIndexes :
            (/\ IsAtomicOpen(tokens[i])
             /\ OnlyChildIsGroup(i)
             /\ IsFlagsOpen(tokens[i + 1])) =>
                \E g \in GroupsOf(i) :
                    /\ nodes[g].atomic /\ nodes[g].flags = NoFlags
                    /\ HoldsOneGroup(g)
                    /\ nodes[OnlyChild(g)].flags = tokens[i + 1].flags
                    /\ ~nodes[OnlyChild(g)].atomic

\* C12, amended: with optimize on, an atomic Group whose sole element is a
\* Group with flags is not merged: the step that closes it returns it
\* unchanged, and the returned AST holds both, the outer atomic and without
\* flags, the inner with its flags and not atomic.
AtomicOverFlagsKept == []AtomicOverFlagsInAst /\ [][AtomicOverFlagsStays]_vars

\* The tokens of (?>(?i:a)) with optimize on: the atomic Group is the
\* element of the top alternative and holds the Group with flags.
AtomicOverFlagsKeptWitness ==
    /\ Returned /\ optimize
    /\ Len(tokens) = 5
    /\ IsAtomicOpen(tokens[1]) /\ IsFlagsOpen(tokens[2])
    /\ tokens[3] = TCharacter(97)
    /\ nodes[top].elements # <<>>
    /\ nodes[top].elements[1] \in GroupsOf(1)
    /\ nodes[OnlyChild(nodes[top].elements[1])].flags = "i"

\* A Group with flags that closes over one Group that is atomic or has
\* flags is returned itself, and nothing changes.
FlagsOverAnyStays ==
    \A outer \in 1..Len(nodes) :
        (/\ optimize
         /\ ClosesOverGroup(outer)
         /\ nodes[outer].flags # NoFlags
         /\ (nodes[OnlyChild(outer)].atomic
                \/ nodes[OnlyChild(outer)].flags # NoFlags)) =>
            ret' = outer /\ nodes' = nodes

\* In a returned AST the Group with flags of token i is there with its
\* flags, not atomic, and holds one Group with the atomic and flags of
\* token i + 1.
FlagsOverAnyInAst ==
    (Returned /\ optimize) =>
        \A i \in TokenIndexes :
            (/\ IsFlagsOpen(tokens[i])
             /\ OnlyChildIsGroup(i)
             /\ (IsAtomicOpen(tokens[i + 1]) \/ IsFlagsOpen(tokens[i + 1]))) =>
                \E g \in GroupsOf(i) :
                    /\ nodes[g].flags = tokens[i].flags /\ ~nodes[g].atomic
                    /\ HoldsOneGroup(g)
                    /\ nodes[OnlyChild(g)].atomic = IsAtomicOpen(tokens[i + 1])
                    /\ nodes[OnlyChild(g)].flags = tokens[i + 1].flags

\* C13: with optimize on, a Group with flags whose sole element is a Group
\* that is atomic or has flags is never collapsed: the step that closes it
\* returns it unchanged, and the returned AST holds both with their own
\* atomic and flags, the inner in the alternative of the outer.
FlagsOverAnyKept == []FlagsOverAnyInAst /\ [][FlagsOverAnyStays]_vars

\* The tokens of (?i:(?>a)) with optimize on.
FlagsOverAnyKeptWitness ==
    /\ Returned /\ optimize
    /\ Len(tokens) = 5
    /\ IsFlagsOpen(tokens[1]) /\ IsAtomicOpen(tokens[2])
    /\ tokens[3] = TCharacter(97)
    /\ nodes[top].elements # <<>>
    /\ nodes[top].elements[1] \in GroupsOf(1)
    /\ nodes[OnlyChild(nodes[top].elements[1])].atomic

----------------------------------------------------------------------------
(* SpecNegation: character classes of either negation, nested and          *)
(* intersected.                                                            *)

NegationOuterTokens == {TCharacterClassOpen(FALSE), TCharacterClassOpen(TRUE)}

NegationInnerTokens ==
    {TCharacter(97), TCharacterClassOpen(FALSE), TCharacterClassOpen(TRUE),
     TCharacterClassClose, TCharacterClassIntersector}

TokenizeNegation == Tokenize(NegationOuterTokens, NegationInnerTokens)

NextNegation ==
    \/ TokenizeNegation \/ EndOfTokens
    \/ walkCharacter
    \/ parseCharacterClassOpen \/ classUnclosed \/ classIntersector
    \/ classPush \/ classClose
    \/ topPush \/ parseEnd

SpecNegation == Init /\ [][NextNegation]_vars

\* The step in which parseCharacterClassOpen leaves its loop and returns.
ClassCloses ==
    /\ InClass /\ HasToken /\ NextToken.type = "CharacterClassClose"
    /\ current' = current + 1

\* Class cc holds one element, a CharacterClass.
HoldsOneClass(cc) ==
    /\ Len(nodes[cc].elements) = 1
    /\ nodes[nodes[cc].elements[1]].type = "CharacterClass"

\* The class that stands for operand cc of an intersection when the class
\* closes, and its negate.
Merged(cc) ==
    IF optimize /\ HoldsOneClass(cc) THEN nodes[cc].elements[1] ELSE cc
MergedNegate(cc) ==
    IF optimize /\ HoldsOneClass(cc)
    THEN nodes[cc].negate # nodes[nodes[cc].elements[1]].negate
    ELSE nodes[cc].negate

\* When a class closes: an operand holding only a class gives way to that
\* class (optimize on), negate being the exclusive or of the two; an
\* intersection of one class gives way to that class, negate being the
\* exclusive or of the outer class and that class.
NegationComposes ==
    ClassCloses =>
        LET outer == Frame.node
            classes == nodes[nodes[outer].elements[1]].classes
        IN  IF Len(classes) = 1
            THEN /\ ret' = Merged(classes[1])
                 /\ nodes'[ret'].negate =
                        (nodes[outer].negate # MergedNegate(classes[1]))
                 /\ nodes'[ret'].parent = Frame.parent
            ELSE /\ ret' = outer
                 /\ nodes'[outer].negate = nodes[outer].negate
                 /\ Len(nodes'[nodes'[outer].elements[1]].classes) = Len(classes)
                 /\ \A j \in 1..Len(classes) :
                       LET m == nodes'[nodes'[outer].elements[1]].classes[j]
                       IN  /\ m = Merged(classes[j])
                           /\ nodes'[m].negate = MergedNegate(classes[j])
                           /\ nodes'[m].parent = nodes[outer].elements[1]

\* The tokens of [^[^a]] and of [&&[^]].
IsDoubleNegation ==
    /\ Len(tokens) = 5
    /\ tokens[1] = TCharacterClassOpen(TRUE)
    /\ tokens[2] = TCharacterClassOpen(TRUE)
    /\ tokens[3] = TCharacter(97)
IsNegatedOperand ==
    /\ Len(tokens) = 5
    /\ tokens[1] = TCharacterClassOpen(FALSE)
    /\ tokens[2].type = "CharacterClassIntersector"
    /\ tokens[3] = TCharacterClassOpen(TRUE)

\* With optimize on, [^[^a]] is one class, not negated, holding a; in
\* [&&[^]] the second operand is the nested class, negated, and the
\* intersection keeps two classes.
NegationExamples ==
    (Returned /\ optimize) =>
        /\ IsDoubleNegation =>
               /\ Cardinality(AstOfType("CharacterClass")) = 1
               /\ \A c \in AstOfType("CharacterClass") :
                     /\ ~nodes[c].negate
                     /\ c = nodes[top].elements[1]
                     /\ Len(nodes[c].elements) = 1
                     /\ nodes[nodes[c].elements[1]].type = "Character"
        /\ IsNegatedOperand =>
               LET c == nodes[top].elements[1]
                   classes == nodes[nodes[c].elements[1]].classes
               IN  /\ nodes[c].type = "CharacterClass" /\ ~nodes[c].negate
                   /\ Len(classes) = 2
                   /\ tokenOf[classes[2]] = 3
                   /\ nodes[classes[2]].negate
                   /\ nodes[classes[2]].elements = <<>>

\* C14: whenever a class is merged into another, negate composes by
\* exclusive or, at every step that closes a class and in the returned
\* ASTs of the two examples.
NegationXor == []NegationExamples /\ [][NegationComposes]_vars

\* The tokens of [^[^a]] parsed with optimize on.
NegationXorWitness ==
    /\ Returned /\ optimize
    /\ IsDoubleNegation
    /\ ~nodes[nodes[top].elements[1]].negate

----------------------------------------------------------------------------
(* Open constructs, read off the tokens *)

\* The groups and classes that the first n tokens open and do not close,
\* outermost first.
RECURSIVE OpenConstructs(_)
OpenConstructs(n) ==
    IF n = 0 THEN <<>>
    ELSE LET open == OpenConstructs(n - 1)
             inner == IF open = <<>> THEN "" ELSE Last(open)
         IN  CASE tokens[n].type = "GroupOpen" -> Append(open, "group")
               [] tokens[n].type = "CharacterClassOpen" -> Append(open, "class")
               [] tokens[n].type = "GroupClose" /\ inner = "group" -> Pop(open)
               [] tokens[n].type = "CharacterClassClose" /\ inner = "class" ->
                    Pop(open)
               [] OTHER -> open

\* The error of running out of tokens inside the innermost open construct.
UnclosedError(open) ==
    IF Last(open) = "class" THEN "UnclosedClass" ELSE "UnclosedGroup"

\* An AST is returned only for tokens that close all they open, and an
\* error of an unclosed construct is that of the innermost one open at the
\* end of the tokens.
ClosedWhenReturned ==
    /\ Returned => OpenConstructs(Len(tokens)) = <<>>
    /\ (pc = "error" /\ err \in {"UnclosedClass", "UnclosedGroup"}) =>
           /\ ended /\ current = Len(tokens)
           /\ OpenConstructs(Len(tokens)) # <<>>
           /\ err = UnclosedError(OpenConstructs(Len(tokens)))

\* When the parser, no error so far, finds the tokens exhausted with a
\* construct open, its next step fails with that construct's error.
ExhaustedFails ==
    (/\ pc = "run" /\ ret = 0 /\ ended /\ ~HasToken
     /\ OpenConstructs(Len(tokens)) # <<>>) =>
        /\ pc' = "error"
        /\ err' = UnclosedError(OpenConstructs(Len(tokens)))

\* C15: parse returns only if every GroupOpen and CharacterClassOpen token
\* is closed by a later token; tokens exhausted inside an open construct,
\* without an earlier error, fail with UnclosedClass if the innermost open
\* construct is a class and with UnclosedGroup if it is a group.
UnclosedFails == []ClosedWhenReturned /\ [][ExhaustedFails]_vars

\* The tokens of (?:[^a : the class is open inside the open group.
UnclosedFailsWitness ==
    /\ pc = "error" /\ err = "UnclosedClass"
    /\ OpenConstructs(Len(tokens)) = <<"group", "class">>
    /\ Len(stack) = 2

----------------------------------------------------------------------------
(* SpecQuantifiers: quantifiers after elements of every type. *)

QuantifierTokens ==
    {TCharacter(97), TQuantifier(0, 1), TAlternator, TAssertion("^"),
     TDirective("keep", NoFlags), TLookaround("lookahead", FALSE), TGroupClose}

TokenizeQuantifiers == Tokenize(QuantifierTokens, {})

NextQuantifiers ==
    \/ TokenizeQuantifiers \/ EndOfTokens
    \/ walkAlternator \/ walkAssertion \/ walkCharacter \/ walkDirective
    \/ walkUnexpected \/ parseQuantifier
    \/ parseGroupOpen \/ groupUnclosed \/ groupAlternator \/ groupPush
    \/ groupClose
    \/ topPush \/ parseEnd

SpecQuantifiers == Init /\ [][NextQuantifiers]_vars

\* The GroupOpen token from token j back that opens the group being
\* scanned, depth counting the groups closed since; 0 if there is none.
RECURSIVE OpenBack(_, _)
OpenBack(j, depth) ==
    IF j < 1 THEN 0
    ELSE CASE tokens[j].type = "GroupClose" -> OpenBack(j - 1, depth + 1)
           [] tokens[j].type = "GroupOpen" ->
                IF depth = 0 THEN j ELSE OpenBack(j - 1, depth - 1)
           [] OTHER -> OpenBack(j - 1, depth)

\* The token that made the element before token i: the token before it,
\* or for a GroupClose token the GroupOpen token it closes.
OperandToken(i) ==
    IF tokens[i - 1].type = "GroupClose" THEN OpenBack(i - 2, 0) ELSE i - 1

\* The type of the node a token makes.
NodeTypeOf(t) ==
    IF t.type = "GroupOpen"
    THEN CASE t.kind = "capturing" -> "CapturingGroup"
           [] t.kind \in {"lookahead", "lookbehind"} -> "Assertion"
           [] OTHER -> "Group"
    ELSE t.type

\* C16: a Quantifier token read as token i when the current alternative
\* is empty (first token, or right after an Alternator or GroupOpen token)
\* stops parse with NothingToRepeat at that token; otherwise its node
\* holds, as element, the node of the element just before it, whatever its
\* type, and is that node's parent.
QuantifierTakesLast ==
    \A i \in 1..current :
        tokens[i].type = "Quantifier" =>
            IF ~HasOperand(i)
            THEN pc = "error" /\ err = "NothingToRepeat" /\ current = i
            ELSE \E q \in 1..Len(nodes) :
                    /\ nodes[q].type = "Quantifier"
                    /\ tokenOf[q] = i
                    /\ LET e == nodes[q].element
                       IN  /\ tokenOf[e] = OperandToken(i)
                           /\ nodes[e].type = NodeTypeOf(tokens[OperandToken(i)])
                           /\ nodes[e].parent = q

\* The tokens of ^?? : a Quantifier on a Quantifier on an Assertion.
QuantifierTakesLastWitness ==
    /\ Returned
    /\ Len(tokens) = 3
    /\ tokens[1].type = "Assertion"
    /\ \E q \in AstOfType("Quantifier") :
          /\ tokenOf[q] = 3
          /\ nodes[nodes[q].element].type = "Quantifier"
          /\ nodes[nodes[nodes[q].element].element].type = "Assertion"

----------------------------------------------------------------------------
(* SpecRegistrars: numbered groups, subroutines and backreferences. *)

RegistrarTokens ==
    {TCapturing(Undefined), TGroupClose, TSubroutine(GRaw(<<"1">>)),
     TBackreference(BareRaw(<<"1">>)), TBackreference(BareRaw(<<"2">>))}

TokenizeRegistrars == Tokenize(RegistrarTokens, {})

NextRegistrars ==
    \/ TokenizeRegistrars \/ EndOfTokens
    \/ walkUnexpected \/ parseBackreference \/ parseSubroutine
    \/ parseGroupOpen \/ groupUnclosed \/ groupPush \/ groupClose
    \/ topPush \/ parseEnd

SpecRegistrars == Init /\ [][NextRegistrars]_vars

\* The first four tokens are those of ()\g<1>\2.
IsSubroutineThenSecond ==
    /\ Len(tokens) >= 4
    /\ IsCapturingOpen(tokens[1])
    /\ tokens[2].type = "GroupClose"
    /\ tokens[3] = TSubroutine(GRaw(<<"1">>))
    /\ tokens[4] = TBackreference(BareRaw(<<"2">>))

\* C17: after any prefix of the tokens the registered capturing groups are
\* as many as the capturing GroupOpen tokens of the prefix, each a
\* CapturingGroup node, whatever Subroutine tokens it holds; so in
\* ()\g<1>\2 the backreference stops parse with InsufficientGroups.
SubroutinesNotRegistered ==
    /\ Len(capturingGroups) = CapturingOpens(current)
    /\ \A j \in 1..Len(capturingGroups) :
          /\ nodes[capturingGroups[j]].type = "CapturingGroup"
          /\ IsCapturingOpen(tokens[tokenOf[capturingGroups[j]]])
    /\ (IsSubroutineThenSecond /\ current >= 4) =>
          (pc = "error" /\ err = "InsufficientGroups" /\ current = 4)

\* The tokens of ()\g<1>\2, read to the backreference.
SubroutinesNotRegisteredWitness ==
    /\ IsSubroutineThenSecond
    /\ pc = "error" /\ err = "InsufficientGroups"
    /\ Len(subroutines) = 1
    /\ Len(capturingGroups) = 1

-----------------------------------------------------------------------------
(* SpecAgain: parse called a second time with the arguments of a call that *)
(* has ended.                                                              *)

\* A further call that found the name table of the call before it.
parseAgainSharedNames ==
    /\ pc \in {"done", "error"}
    /\ earlier = NoCall
    /\ earlier' = [pc |-> pc, err |-> err, nodes |-> nodes]
    /\ current' = 0
    /\ nodes' = createRegExp(0, InputFlags)
    /\ tokenOf' = <<0, 0, 0, 0>>
    /\ capturingGroups' = <<>>
    /\ subroutines' = <<>>
    /\ hasNumberedGroupRef' = FALSE
    /\ top' = nodes'[nodes'[1].pattern].alternatives[1]
    /\ stack' = <<>>
    /\ ret' = 0
    /\ pc' = "run"
    /\ err' = ""
    /\ UNCHANGED <<tokens, ended, optimize, namedGroups>>

\* parse is called again with the same tokens, flags and options: context
\* and ast are made anew in the call, and nothing outside it is written.
parseAgain ==
    /\ pc \in {"done", "error"}
    /\ earlier = NoCall
    /\ earlier' = [pc |-> pc, err |-> err, nodes |-> nodes]
    /\ current' = 0
    /\ nodes' = createRegExp(0, InputFlags)
    /\ tokenOf' = <<0, 0, 0, 0>>
    /\ capturingGroups' = <<>>
    /\ namedGroups' = [n \in GroupNames |-> <<>>]
    /\ subroutines' = <<>>
    /\ hasNumberedGroupRef' = FALSE
    /\ top' = nodes'[nodes'[1].pattern].alternatives[1]
    /\ stack' = <<>>
    /\ ret' = 0
    /\ pc' = "run"
    /\ err' = ""
    /\ UNCHANGED <<tokens, ended, optimize>>

AgainTokens ==
    {TCapturing(<<"a">>), TGroup(NoFlags), TGroupClose, TCharacter(97),
     TQuantifier(0, 1), TSubroutine(GRaw(<<"a">>)), TCharacterClassOpen(TRUE)}

AgainClassTokens ==
    {TCharacter(97), TCharacterClassIntersector, TCharacterClassClose}

TokenizeAgain == Tokenize(AgainTokens, AgainClassTokens)

NextAgain ==
    \/ TokenizeAgain \/ EndOfTokens
    \/ walkCharacter \/ walkUnexpected \/ parseQuantifier \/ parseSubroutine
    \/ parseGroupOpen \/ groupUnclosed \/ groupPush \/ groupClose
    \/ parseCharacterClassOpen \/ classUnclosed \/ classIntersector
    \/ classPush \/ classClose
    \/ topPush \/ parseEnd \/ parseAgain

SpecAgain == Init /\ [][NextAgain]_vars

\* The second call has ended.
EndedAgain == earlier # NoCall /\ pc \in {"done", "error"}

-----------------------------------------------------------------------------
(* SpecOptimizer: groups, plain, atomic and with flags, and classes with   *)
(* nested classes and intersections.                                       *)

OptimizerTokens ==
    {TGroup(NoFlags), TGroup("i"), TGroupOpen("atomic"), TGroupClose,
     TCharacter(97), TCharacterClassOpen(FALSE)}

OptimizerClassTokens ==
    {TCharacter(97), TCharacterClassOpen(TRUE), TCharacterClassClose,
     TCharacterClassIntersector}

TokenizeOptimizer == Tokenize(OptimizerTokens, OptimizerClassTokens)

NextOptimizer ==
    \/ TokenizeOptimizer \/ EndOfTokens
    \/ walkCharacter \/ walkUnexpected
    \/ parseGroupOpen \/ groupUnclosed \/ groupPush \/ groupClose
    \/ parseCharacterClassOpen \/ classUnclosed \/ classIntersector
    \/ classPush \/ classClose
    \/ topPush \/ parseEnd

SpecOptimizer == Init /\ [][NextOptimizer]_vars

\* The redundant-nesting rewrite would apply to Group g: one alternative,
\* one element, a Group, and the two carry no atomic against flags nor
\* flags against atomic or flags.
StillCollapses(g) ==
    /\ Len(nodes[g].alternatives) = 1
    /\ Len(nodes[nodes[g].alternatives[1]].elements) = 1
    /\ LET inner == nodes[nodes[g].alternatives[1]].elements[1]
       IN  /\ nodes[inner].type = "Group"
           /\ ~(nodes[g].atomic /\ nodes[inner].flags # NoFlags)
           /\ ~(nodes[g].flags # NoFlags /\
                  (nodes[inner].atomic \/ nodes[inner].flags # NoFlags))

\* The member classes of intersection x.
Members(x) == {nodes[x].classes[i] : i \in 1..Len(nodes[x].classes)}

-----------------------------------------------------------------------------
(* SpecNamedRefs: named groups, a backreference and a subroutine by name.  *)

NamedRefTokens ==
    {TCapturing(<<"a">>), TCapturing(<<"b">>), TGroupClose,
     TBackreference(KRaw(<<"a">>)), TSubroutine(GRaw(<<"a">>))}

TokenizeNamedRefs == Tokenize(NamedRefTokens, {})

NextNamedRefs ==
    \/ TokenizeNamedRefs \/ EndOfTokens
    \/ walkUnexpected \/ parseBackreference \/ parseSubroutine
    \/ parseGroupOpen \/ groupUnclosed \/ groupPush \/ groupClose
    \/ topPush \/ parseEnd

SpecNamedRefs == Init /\ [][NextNamedRefs]_vars

\* The capturing GroupOpen tokens with name s among the first n tokens.
NamedOpens(s, n) ==
    {i \in 1..n : i <= Len(tokens) /\ IsCapturingOpen(tokens[i])
                                   /\ tokens[i].name = s}

IsNamedBackreference(t) ==
    t.type = "Backreference" /\ t.raw[2] = "k" /\ ~IsSignedNumber(Inner(t.raw))

\* The numbered list and the named map hold the capturing groups of the
\* GroupOpen tokens read so far, in the order of their tokens.
RegisteredWhenOpened ==
    /\ Len(capturingGroups) = CapturingOpens(current)
    /\ \A s \in GroupNames :
          /\ Len(namedGroups[s]) = Cardinality(NamedOpens(s, current))
          /\ \A j \in 1..Len(namedGroups[s]) :
                /\ tokenOf[namedGroups[s][j]] \in NamedOpens(s, current)
                /\ j > 1 => tokenOf[namedGroups[s][j - 1]]
                                < tokenOf[namedGroups[s][j]]

\* Token i, a backreference by name, was accepted exactly if a group of the
\* name was opened before it.
NamedBackreferenceRead(i) ==
    IF NamedOpens(Inner(tokens[i].raw), i) = {}
    THEN pc = "error" /\ err = "UndefinedGroupName" /\ current = i
    ELSE \E b \in 1..Len(nodes) :
            /\ nodes[b].type = "Backreference"
            /\ tokenOf[b] = i
            /\ nodes[b].ref = NameRef(Inner(tokens[i].raw))

\* Token i, a subroutine by name, was accepted by walk: its node was made,
\* which no step that throws does.
NamedSubroutineRead(i) ==
    \E n \in 1..Len(nodes) :
        /\ nodes[n].type = "Subroutine"
        /\ tokenOf[n] = i
        /\ nodes[n].ref = NameRef(Inner(tokens[i].raw))

\* C20: a capturing group is in the numbered list, and if named in the
\* named map, from the step that reads its GroupOpen token; a Backreference
\* by name is accepted exactly if a GroupOpen token of that name precedes
\* it, its own group's included, and otherwise stops parse with
\* UndefinedGroupName, where walk accepts a Subroutine by name.
RegisteredBeforeBody ==
    /\ RegisteredWhenOpened
    /\ \A i \in 1..current :
          /\ IsNamedBackreference(tokens[i]) => NamedBackreferenceRead(i)
          /\ IsNamedSubroutine(tokens[i]) => NamedSubroutineRead(i)

\* The tokens of (?<a>\k<a>): the backreference inside the body of the
\* group it names is in the AST returned.
RegisteredBeforeBodyWitness ==
    /\ Returned
    /\ Len(tokens) = 3
    /\ IsCapturingOpen(tokens[1]) /\ tokens[1].name = <<"a">>
    /\ tokens[2] = TBackreference(KRaw(<<"a">>))
    /\ \E b \in AstOfType("Backreference") : nodes[b].ref = NameRef(<<"a">>)

-----------------------------------------------------------------------------
(* SpecRanges: classes of characters, a character set, hyphens, nested     *)
(* classes and intersections.                                              *)

RangeOuterTokens == {TCharacterClassOpen(FALSE), TCharacter(98)}

RangeClassTokens ==
    {TCharacter(97), TCharacter(98), TCharacterSet("digit", FALSE),
     TCharacterClassHyphen, TCharacterClassOpen(FALSE), TCharacterClassClose,
     TCharacterClassIntersector}

TokenizeRanges == Tokenize(RangeOuterTokens, RangeClassTokens)

NextRanges ==
    \/ TokenizeRanges \/ EndOfTokens
    \/ walkCharacter \/ walkCharacterSet
    \/ parseCharacterClassOpen \/ classUnclosed \/ classIntersector
    \/ classPush \/ classClose
    \/ parseCharacterClassHyphen \/ hyphenRange
    \/ topPush \/ parseEnd

SpecRanges == Init /\ [][NextRanges]_vars

\* walk is about to read a CharacterClassHyphen token, and reads it.
HyphenRead == Walk("CharacterClassHyphen") /\ current' = current + 1

\* The last element of the class the hyphen is read in, 0 if it has none.
HyphenPrev ==
    IF nodes[WalkParent].elements = <<>> THEN 0
    ELSE nodes[WalkParent].elements[Len(nodes[WalkParent].elements)]

\* The token after the hyphen is absent, or of one of the three types no
\* range ends with.
HyphenNextBars ==
    \/ Len(tokens) < current + 2
    \/ tokens[current + 2].type \in
           {"CharacterClassOpen", "CharacterClassClose",
            "CharacterClassIntersector"}

\* The hyphen about to be read stands for itself.
HyphenStandsAlone ==
    \/ HyphenPrev = 0
    \/ nodes[HyphenPrev].type = "CharacterClass"
    \/ HyphenNextBars

\* The step returns one new Character of value 45 in the class, consumes
\* one token and changes no node there was.
LiteralHyphenReturned ==
    /\ pc' = "run"
    /\ stack' = stack
    /\ Len(nodes') = Len(nodes) + 1
    /\ SubSeq(nodes', 1, Len(nodes)) = nodes
    /\ ret' = Len(nodes')
    /\ nodes'[ret'].type = "Character"
    /\ nodes'[ret'].value = 45
    /\ nodes'[ret'].parent = WalkParent

HyphenLiteral == (HyphenRead /\ HyphenStandsAlone) => LiteralHyphenReturned

\* C21: a CharacterClassHyphen token read when its class has no element
\* yet, or its last element is a CharacterClass, or the next token is
\* absent or a CharacterClassOpen, CharacterClassClose or
\* CharacterClassIntersector, yields a new Character of value 45, consumes
\* that one token and leaves every node as it was.
HyphenIsLiteral == [][HyphenLiteral]_vars

\* A hyphen read after a nested class has just been returned as Character 45.
HyphenIsLiteralWitness ==
    /\ pc = "run" /\ ret # 0
    /\ current >= 1 /\ tokens[current].type = "CharacterClassHyphen"
    /\ nodes[ret].type = "Character" /\ nodes[ret].value = 45
    /\ nodes[nodes[ret].parent].elements # <<>>
    /\ nodes[Last(nodes[nodes[ret].parent].elements)].type = "CharacterClass"

-----------------------------------------------------------------------------
(* Ranges *)

\* The right-hand side of a hyphen has been parsed and both sides are
\* Characters.
BothCharacters ==
    /\ pc = "run" /\ ret # 0
    /\ stack # <<>> /\ Frame.kind = "hyphen"
    /\ nodes[Frame.prev].type = "Character"
    /\ nodes[ret].type = "Character"

\* The step after it: RangeOutOfOrder if the right side is the smaller, else
\* the left side leaves the class and a new CharacterClassRange of the two
\* is returned.
RangeMade ==
    BothCharacters =>
        IF nodes[ret].value < nodes[Frame.prev].value
        THEN pc' = "error" /\ err' = "RangeOutOfOrder"
        ELSE /\ pc' = "run"
             /\ nodes'[Frame.parent].elements =
                    SubSeq(nodes[Frame.parent].elements, 1,
                           Len(nodes[Frame.parent].elements) - 1)
             /\ Last(nodes[Frame.parent].elements) = Frame.prev
             /\ Len(nodes') = Len(nodes) + 1
             /\ ret' = Len(nodes')
             /\ nodes'[ret'].type = "CharacterClassRange"
             /\ nodes'[ret'].parent = Frame.parent
             /\ nodes'[ret'].min = Frame.prev
             /\ nodes'[ret'].max = ret
             /\ nodes'[Frame.prev].parent = ret'
             /\ nodes'[ret].parent = ret'

\* A CharacterClassRange returned to a class becomes its last element.
RangePlaced ==
    (/\ pc = "run" /\ ret # 0
     /\ nodes[ret].type = "CharacterClassRange"
     /\ stack # <<>> /\ Frame.kind = "class"
     /\ ret' = 0) =>
        nodes'[nodes[ret].parent].elements =
            Append(nodes[nodes[ret].parent].elements, ret)

RangeReplaces == RangeMade /\ RangePlaced

\* Every CharacterClassRange there is has two Characters, in order.
RangesOrdered ==
    \A r \in 1..Len(nodes) :
        nodes[r].type = "CharacterClassRange" =>
            /\ nodes[nodes[r].min].type = "Character"
            /\ nodes[nodes[r].max].type = "Character"
            /\ nodes[nodes[r].min].value <= nodes[nodes[r].max].value

\* C22: when both sides of a hyphen with eligible neighbours are Characters
\* the step fails with RangeOutOfOrder if max.value < min.value, and
\* otherwise takes the previous element out of the class and returns one
\* CharacterClassRange(min = previous, max = right-hand side), which then
\* becomes the class's last element, so the class has as many elements as
\* before; every CharacterClassRange has min.value <= max.value.
RangeTakesPlace == []RangesOrdered /\ [][RangeReplaces]_vars

\* The tokens of [a-b]: the class returned holds one element, the range
\* from 97 to 98.
RangeTakesPlaceWitness ==
    /\ Returned
    /\ Len(tokens) = 5
    /\ tokens[2] = TCharacter(97) /\ tokens[4] = TCharacter(98)
    /\ \E r \in AstOfType("CharacterClassRange") :
          /\ nodes[nodes[r].min].value = 97
          /\ nodes[nodes[r].max].value = 98
          /\ nodes[nodes[r].parent].elements = <<r>>

-----------------------------------------------------------------------------
(* Hyphens between sides that make no range *)

\* The right-hand side of a hyphen with eligible neighbours has been parsed.
SidesParsed ==
    /\ pc = "run" /\ ret # 0
    /\ stack # <<>> /\ Frame.kind = "hyphen"

\* How many of the two sides are Characters.
CharacterSides ==
    (IF nodes[Frame.prev].type = "Character" THEN 1 ELSE 0)
    + (IF nodes[ret].type = "Character" THEN 1 ELSE 0)

InvalidRangeThrown == pc' = "error" /\ err' = "InvalidRange"

InvalidRangeIffOneCharacter ==
    SidesParsed => (InvalidRangeThrown <=> CharacterSides = 1)

\* The statement with "exactly when one side is a Character and the other is
\* not": the tokens of [\d-\d] refute it.
InvalidRangeOnlyMixed == [][InvalidRangeIffOneCharacter]_vars

InvalidRangeIffNotBoth ==
    SidesParsed => (InvalidRangeThrown <=> CharacterSides < 2)

\* C23: when a hyphen has eligible neighbours, parse fails with InvalidRange
\* exactly when the previous element and the parsed right-hand side are
\* not both Characters, also when neither is one.
InvalidRangeUnlessBoth == [][InvalidRangeIffNotBoth]_vars

\* The tokens of [\d-\d: InvalidRange with a CharacterSet on both sides.
InvalidRangeUnlessBothWitness ==
    /\ pc = "error" /\ err = "InvalidRange"
    /\ Len(tokens) >= 4
    /\ tokens[2].type = "CharacterSet"
    /\ tokens[3].type = "CharacterClassHyphen"
    /\ tokens[4].type = "CharacterSet"
    /\ current = 4

-----------------------------------------------------------------------------
(* SpecErrors: a named group, a subroutine by a number no group has and a  *)
(* subroutine by a name no group has.                                      *)

ErrorTokens ==
    {TCapturing(<<"a">>), TGroupClose,
     TSubroutine(GRaw(<<"2">>)), TSubroutine(GRaw(<<"b">>))}

TokenizeErrors == Tokenize(ErrorTokens, {})

NextErrors ==
    \/ TokenizeErrors \/ EndOfTokens
    \/ walkUnexpected \/ parseSubroutine
    \/ parseGroupOpen \/ groupUnclosed \/ groupPush \/ groupClose
    \/ topPush \/ parseEnd

SpecErrors == Init /\ [][NextErrors]_vars

\* An error of the checks after the loop: the loop has consumed every token
\* and nothing is open.
PostPassAfterWalk ==
    (pc = "error" /\ err \in PostPassErrors) =>
        /\ ended /\ current = Len(tokens)
        /\ stack = <<>> /\ ret = 0

\* An error about a subroutine: the mix of numbers and names was checked
\* before and did not hold.
MixCheckedFirst ==
    (pc = "error" /\ err \in PostPassErrors \ {"NumericRefWithNamedCapture"}) =>
        ~(hasNumberedGroupRef /\ NamedKeys # {})

\* The tokens end inside a group.
EndsInGroup == ended /\ current = Len(tokens) /\ stack # <<>>

ErrorOrderExamples ==
    /\ (WalkCompleted /\ HasNamedOpen /\ HasNumericRef) =>
           (pc = "error" /\ err = "NumericRefWithNamedCapture")
    /\ (pc \in {"done", "error"} /\ EndsInGroup) =>
           (pc = "error" /\ err = "UnclosedGroup")

ErrorOrderStates == PostPassAfterWalk /\ MixCheckedFirst /\ ErrorOrderExamples

\* A step is taken only while no error has been raised.
NoRecovery == pc = "run"

\* C24: the first error ends the parse; an error of the checks after the
\* loop is raised only when every token has been consumed with nothing
\* open; NumericRefWithNamedCapture is raised before any subroutine is
\* validated, as for (?<a>)\g<2>; and tokens that end inside a group fail
\* with UnclosedGroup whatever subroutine they hold, as for (?<a>\g<b>.
ErrorsInOrder == []ErrorOrderStates /\ [][NoRecovery]_vars

\* The tokens of (?<a>)\g<2>: the number 2 names no group, and the error is
\* that of the mix.
ErrorsInOrderWitness ==
    /\ pc = "error" /\ err = "NumericRefWithNamedCapture"
    /\ Len(tokens) = 3
    /\ IsNamedOpen(tokens[1])
    /\ tokens[2] = TGroupClose
    /\ tokens[3] = TSubroutine(GRaw(<<"2">>))
    /\ Len(capturingGroups) = 1

-----------------------------------------------------------------------------
(* SpecTreeFair: SpecTree with the parser and the tokenizer kept running.  *)

SpecTreeFair == Init /\ [][NextTree]_vars /\ WF_vars(NextTree)

Terminated == pc \in {"done", "error"}

\* The cursor is within the tokens; walk called for the right-hand side of
\* a hyphen finds a token; an AST is returned with every token consumed.
CursorInBounds ==
    /\ current <= Len(tokens)
    /\ (pc = "run" /\ ret = 0 /\ stack # <<>> /\ Frame.kind = "hyphen") =>
           current < Len(tokens)
    /\ Returned => (ended /\ current = Len(tokens))

\* The cursor never moves back; a step of the parser on a token, be it a
\* walk or the skip of an alternator, intersector or closing token, moves
\* it on by one; past the last token the parser reads none.
CursorAdvances ==
    /\ current' >= current
    /\ (Ready /\ HasToken) => current' = current + 1
    /\ (Ready /\ ~HasToken) => (current' = current /\ Terminated')

\* C25: parse terminates on every token sequence, returning an AST or
\* raising an error; current only increases, by one for every token walked
\* or skipped, no token is read past the end, and on return current equals
\* tokens.length.
ParseTerminates ==
    /\ []CursorInBounds
    /\ [][CursorAdvances]_vars
    /\ <>Terminated

\* An AST returned from five tokens with a group and an alternator in it.
ParseTerminatesWitness ==
    /\ Returned
    /\ current = MaxTokens
    /\ AstOfType("Group") # {}
    /\ \E i \in TokenIndexes : tokens[i].type = "Alternator"

-----------------------------------------------------------------------------
(* SpecUnmatched: groups and classes with closing tokens and intersectors  *)
(* in any place.                                                           *)

UnmatchedOuterTokens ==
    {TGroup(NoFlags), TGroupClose, TCharacter(97), TCharacterClassOpen(FALSE),
     TCharacterClassClose, TCharacterClassIntersector}

UnmatchedClassTokens ==
    {TCharacter(97), TCharacterClassClose, TCharacterClassIntersector,
     TGroupClose}

TokenizeUnmatched == Tokenize(UnmatchedOuterTokens, UnmatchedClassTokens)

NextUnmatched ==
    \/ TokenizeUnmatched \/ EndOfTokens
    \/ walkCharacter \/ walkUnexpected
    \/ parseGroupOpen \/ groupUnclosed \/ groupPush \/ groupClose
    \/ parseCharacterClassOpen \/ classUnclosed \/ classIntersector
    \/ classPush \/ classClose
    \/ topPush \/ parseEnd

SpecUnmatched == Init /\ [][NextUnmatched]_vars

\* No construct of the kind is open after the first n tokens.
NoneOpen(kind, n) ==
    \A k \in 1..Len(OpenConstructs(n)) : OpenConstructs(n)[k] # kind

\* Token i is a GroupClose with no group open, or a CharacterClassClose or
\* CharacterClassIntersector with no class open.
IsUnmatched(i) ==
    \/ tokens[i].type = "GroupClose" /\ NoneOpen("group", i - 1)
    \/ /\ tokens[i].type \in
              {"CharacterClassClose", "CharacterClassIntersector"}
       /\ NoneOpen("class", i - 1)

\* C26: a GroupClose token read while no group is open, and a
\* CharacterClassClose or CharacterClassIntersector token read while no
\* class is open, stop parse there with UnexpectedToken; no AST is returned
\* from tokens that hold one.
UnmatchedFails ==
    /\ \A i \in 1..current :
          IsUnmatched(i) =>
              (pc = "error" /\ err = "UnexpectedToken" /\ current = i)
    /\ Returned => \A i \in TokenIndexes : ~IsUnmatched(i)

\* An intersector read inside a group, no class open, has stopped parse.
UnmatchedFailsWitness ==
    /\ pc = "error" /\ err = "UnexpectedToken"
    /\ current = 3
    /\ tokens[1].type = "GroupOpen"
    /\ tokens[3].type = "CharacterClassIntersector"
    /\ IsUnmatched(3)

-----------------------------------------------------------------------------
(* SpecAlternatives: groups, capturing groups and lookaheads with          *)
(* alternators at every level.                                             *)

AlternativeTokens ==
    {TGroup(NoFlags), TCapturing(Undefined), TLookaround("lookahead", FALSE),
     TGroupClose, TAlternator, TCharacter(97)}

TokenizeAlternatives == Tokenize(AlternativeTokens, {})

NextAlternatives ==
    \/ TokenizeAlternatives \/ EndOfTokens
    \/ walkAlternator \/ walkCharacter \/ walkUnexpected
    \/ parseGroupOpen \/ groupUnclosed \/ groupAlternator \/ groupPush
    \/ groupClose
    \/ topPush \/ parseEnd

SpecAlternatives == Init /\ [][NextAlternatives]_vars

\* The nodes of the AST that hold alternatives: the Pattern, and the nodes
\* made from GroupOpen tokens.
Holders ==
    {n \in Ast : nodes[n].type \in
                     {"Pattern", "Group", "CapturingGroup", "Assertion"}}

\* The Alternator tokens directly at the level of the group opened by
\* token i, or at the top level for i = 0.
AlternatorsAt(i) ==
    {j \in TokenIndexes :
        tokens[j].type = "Alternator" /\ OpenBack(j - 1, 0) = i}

\* Holder n has one alternative for its start and one for each Alternator
\* token of its level, in the order of the tokens.
AlternativesInOrder(n) ==
    LET alts == nodes[n].alternatives
    IN  /\ Len(alts) = 1 + Cardinality(AlternatorsAt(tokenOf[n]))
        /\ nodes[alts[1]].type = "Alternative"
        /\ tokenOf[alts[1]] = tokenOf[n]
        /\ \A k \in 2..Len(alts) :
              /\ nodes[alts[k]].type = "Alternative"
              /\ tokenOf[alts[k]] \in AlternatorsAt(tokenOf[n])
              /\ tokenOf[alts[k - 1]] < tokenOf[alts[k]]

\* The elements of each alternative of holder n come from the tokens
\* between its start and the next alternative's, in their order.
ElementsInPlace(n) ==
    LET alts == nodes[n].alternatives
    IN  \A k \in 1..Len(alts) :
            LET els == nodes[alts[k]].elements
            IN  \A e \in 1..Len(els) :
                    /\ tokenOf[alts[k]] < tokenOf[els[e]]
                    /\ k < Len(alts) => tokenOf[els[e]] < tokenOf[alts[k + 1]]
                    /\ e > 1 => tokenOf[els[e - 1]] < tokenOf[els[e]]

\* C27: in every returned AST the Pattern and every Group, CapturingGroup
\* and lookaround has one alternative more than there are Alternator tokens
\* directly at its level, in token order, each element in the alternative
\* that was current when its token was read; no tokens give a Pattern with
\* one empty Alternative.
AlternativesFollowTokens ==
    Returned =>
        /\ \A n \in Holders : AlternativesInOrder(n) /\ ElementsInPlace(n)
        /\ tokens = <<>> =>
               /\ Len(nodes[nodes[1].pattern].alternatives) = 1
               /\ nodes[nodes[nodes[1].pattern].alternatives[1]].elements = <<>>

\* An AST returned with a group of two alternatives, the second not empty.
AlternativesFollowTokensWitness ==
    /\ Returned
    /\ \E n \in Holders :
          /\ nodes[n].type # "Pattern"
          /\ Len(nodes[n].alternatives) = 2
          /\ nodes[nodes[n].alternatives[2]].elements # <<>>

-----------------------------------------------------------------------------
(* SpecQuantifierOrder: quantifiers, one with max < min, in and out of a   *)
(* lookbehind.                                                             *)

QuantifierOrderTokens ==
    {TLookaround("lookbehind", FALSE), TGroup(NoFlags), TGroupClose,
     TCharacter(97), TQuantifier(0, 1), TQuantifier(2, 1)}

TokenizeQuantifierOrder == Tokenize(QuantifierOrderTokens, {})

NextQuantifierOrder ==
    \/ TokenizeQuantifierOrder \/ EndOfTokens
    \/ walkCharacter \/ walkUnexpected \/ parseQuantifier
    \/ parseGroupOpen \/ groupUnclosed \/ groupPush \/ groupClose
    \/ topPush \/ parseEnd

SpecQuantifierOrder == Init /\ [][NextQuantifierOrder]_vars

\* walk reads a Quantifier token with an element before it.
QuantifierRead ==
    /\ Walk("Quantifier")
    /\ nodes[WalkParent].elements # <<>>
    /\ current' = current + 1

\* The step fails with RangeOutOfOrder if max < min, wherever it is; if it
\* succeeds, the alternative loses its last element and nothing else, and
\* the Quantifier returned holds that element.
QuantifierWraps ==
    QuantifierRead =>
        LET els == nodes[WalkParent].elements
        IN  IF NextToken.max < NextToken.min
            THEN pc' = "error" /\ err' = "RangeOutOfOrder"
            ELSE pc' = "run" =>
                    /\ nodes'[WalkParent].elements =
                           SubSeq(els, 1, Len(els) - 1)
                    /\ Len(nodes') = Len(nodes) + 1
                    /\ ret' = Len(nodes')
                    /\ nodes'[ret'].type = "Quantifier"
                    /\ nodes'[ret'].parent = WalkParent
                    /\ nodes'[ret'].element = els[Len(els)]
                    /\ nodes'[ret'].min = NextToken.min
                    /\ nodes'[ret'].max = NextToken.max
                    /\ nodes'[els[Len(els)]].parent = ret'

\* A Quantifier returned becomes the last element of its alternative.
QuantifierPlaced ==
    (/\ pc = "run" /\ ret # 0
     /\ nodes[ret].type = "Quantifier"
     /\ ret' = 0) =>
        nodes'[nodes[ret].parent].elements =
            Append(nodes[nodes[ret].parent].elements, ret)

QuantifierStep == QuantifierWraps /\ QuantifierPlaced

QuantifiersOrdered ==
    \A q \in 1..Len(nodes) :
        nodes[q].type = "Quantifier" => nodes[q].min <= nodes[q].max

\* C28: a Quantifier step that succeeds replaces the last element of the
\* current alternative by a Quantifier holding it and leaves the earlier
\* elements as they were, so the alternative keeps its length; with
\* max < min the step fails with RangeOutOfOrder, in a lookbehind too; every
\* Quantifier has min <= max.
QuantifierKeepsLength == []QuantifiersOrdered /\ [][QuantifierStep]_vars

\* The tokens of (?<=a{2,1} : RangeOutOfOrder inside the lookbehind.
QuantifierKeepsLengthWitness ==
    /\ pc = "error" /\ err = "RangeOutOfOrder"
    /\ current = 3
    /\ tokens[1] = TLookaround("lookbehind", FALSE)
    /\ tokens[2] = TCharacter(97)
    /\ tokens[3] = TQuantifier(2, 1)

-----------------------------------------------------------------------------
(* SpecBackrefNames: backreferences in \k<...> and \k'...' whose text      *)
(* holds a sign.                                                           *)

\* \k'ref' as the tokenizer leaves it in token.raw.
QRaw(ref) == <<"\\", "k", "'">> \o ref \o <<"'">>

BackrefNameTokens ==
    {TCapturing(Undefined), TCapturing(<<"a">>), TGroupClose,
     TBackreference(KRaw(<<"+", "1">>)), TBackreference(QRaw(<<"+", "1">>)),
     TBackreference(KRaw(<<"a", "-", "1">>)),
     TBackreference(KRaw(<<"-", "1">>)), TBackreference(KRaw(<<"a">>))}

TokenizeBackrefNames == Tokenize(BackrefNameTokens, {})

NextBackrefNames ==
    \/ TokenizeBackrefNames \/ EndOfTokens
    \/ walkUnexpected \/ parseBackreference
    \/ parseGroupOpen \/ groupUnclosed \/ groupPush \/ groupClose
    \/ topPush \/ parseEnd

SpecBackrefNames == Init /\ [][NextBackrefNames]_vars

\* A backreference in \k<...> or \k'...' whose text is not a number with an
\* optional - before it, and holds a - or a +.
IsSignedName(t) ==
    /\ t.type = "Backreference" /\ t.raw[2] = "k"
    /\ ~(IsSignedNumber(Inner(t.raw)) /\ SignOf(Inner(t.raw)) # "+")
    /\ \E i \in 1..Len(Inner(t.raw)) : Inner(t.raw)[i] \in {"-", "+"}

\* C29: a \k<...> or \k'...' backreference whose text is not of the numeric
\* form and holds - or + stops parse at that token with InvalidBackrefName,
\* whatever groups were opened before it; the flag of a numbered reference
\* is set only by a token of the numeric form, so never by \k<+n>.
SignedNameRejected ==
    /\ \A i \in 1..current :
          IsSignedName(tokens[i]) =>
              (pc = "error" /\ err = "InvalidBackrefName" /\ current = i)
    /\ hasNumberedGroupRef =>
          \E i \in 1..current : IsNumericBackreference(tokens[i])

\* The tokens of ()\k<+1>: one group lies to the left, and the
\* backreference is rejected for its name.
SignedNameRejectedWitness ==
    /\ pc = "error" /\ err = "InvalidBackrefName"
    /\ current = 3
    /\ IsCapturingOpen(tokens[1])
    /\ tokens[2] = TGroupClose
    /\ tokens[3] = TBackreference(KRaw(<<"+", "1">>))
    /\ ~hasNumberedGroupRef

-----------------------------------------------------------------------------
(* SpecFlipped: parse called a second time on the same tokens with the     *)
(* other value of optimize.                                                *)

\* parse is called again with the same tokens and flags and the other value
\* of optimize; the history keeps how the first call ended and what its
\* context held.
parseFlipped ==
    /\ pc \in {"done", "error"}
    /\ earlier = NoCall
    /\ earlier' = [pc |-> pc, err |-> err, nodes |-> nodes,
                   optimize |-> optimize,
                   capturingGroups |-> capturingGroups,
                   namedGroups |-> namedGroups,
                   subroutines |-> subroutines,
                   hasNumberedGroupRef |-> hasNumberedGroupRef]
    /\ optimize' = ~optimize
    /\ current' = 0
    /\ nodes' = createRegExp(0, InputFlags)
    /\ tokenOf' = <<0, 0, 0, 0>>
    /\ capturingGroups' = <<>>
    /\ namedGroups' = [n \in GroupNames |-> <<>>]
    /\ subroutines' = <<>>
    /\ hasNumberedGroupRef' = FALSE
    /\ top' = nodes'[nodes'[1].pattern].alternatives[1]
    /\ stack' = <<>>
    /\ ret' = 0
    /\ pc' = "run"
    /\ err' = ""
    /\ UNCHANGED <<tokens, ended>>

FlippedTokens ==
    {TGroup(NoFlags), TCapturing(<<"a">>), TGroupClose,
     TSubroutine(GRaw(<<"a">>)), TSubroutine(GRaw(<<"1">>)),
     TCharacterClassOpen(FALSE)}

FlippedClassTokens ==
    {TCharacter(97), TCharacterClassOpen(FALSE), TCharacterClassClose,
     TCharacterClassIntersector}

TokenizeFlipped == Tokenize(FlippedTokens, FlippedClassTokens)

NextFlipped ==
    \/ TokenizeFlipped \/ EndOfTokens
    \/ walkCharacter \/ walkUnexpected \/ parseSubroutine
    \/ parseGroupOpen \/ groupUnclosed \/ groupPush \/ groupClose
    \/ parseCharacterClassOpen \/ classUnclosed \/ classIntersector
    \/ classPush \/ classClose
    \/ topPush \/ parseEnd \/ parseFlipped

SpecFlipped == Init /\ [][NextFlipped]_vars

\* The refs of the subroutines listed in subs, read in heap h.
RefsOf(h, subs) == [i \in 1..Len(subs) |-> h[subs[i]].ref]

\* The second call, with the other value of optimize, has ended.
EndedFlipped ==
    /\ earlier # NoCall
    /\ pc \in {"done", "error"}
    /\ earlier.optimize # optimize

----------------------------------------------------------------------------
(* Intersections of the returned AST, under SpecClasses. *)

Intersections == AstOfType("CharacterClassIntersection")

\* The intersection of a returned AST has one operand class for the start
\* of its brackets and one for each intersector token directly in them,
\* every operand a CharacterClass of the AST below it.
IntersectionsCounted ==
    Returned =>
        \A x \in Intersections :
            /\ tokens[tokenOf[x]].type = "CharacterClassOpen"
            /\ Len(nodes[x].classes) = 1 + DirectIntersectors(tokenOf[x])
            /\ Len(nodes[x].classes) >= 2
            /\ \A k \in 1..Len(nodes[x].classes) :
                  /\ nodes[nodes[x].classes[k]].type = "CharacterClass"
                  /\ nodes[nodes[x].classes[k]].parent = x

\* The closing bracket is read for a class whose intersection has one
\* operand.
SingleOperandClosed ==
    /\ InClass
    /\ HasToken
    /\ NextToken.type = "CharacterClassClose"
    /\ Len(nodes[IntersectionOf(Frame)].classes) = 1
    /\ ret' # 0

\* Then parseCharacterClassOpen returns, in place of the class it created,
\* a class that is not under the intersection: the operand, or with
\* optimize the class that stood alone in the operand.
SingleOperandReplaced ==
    SingleOperandClosed =>
        /\ ret' # Frame.node
        /\ nodes'[ret'].type = "CharacterClass"
        /\ nodes'[ret'].parent = Frame.parent
        /\ \/ ret' = nodes[IntersectionOf(Frame)].classes[1]
           \/ /\ optimize
              /\ nodes[nodes[IntersectionOf(Frame)].classes[1]].elements =
                     <<ret'>>

\* C31: for either value of optimize, every CharacterClassIntersection of a
\* returned AST has at least two operand classes, one more than the
\* intersector tokens directly in its brackets; a class whose intersection
\* has a single operand is replaced by that operand when its brackets close.
IntersectionHasTwo == []IntersectionsCounted /\ [][SingleOperandReplaced]_vars

\* The tokens of [[]&&] with optimize true: the inner brackets, without an
\* intersector, left no intersection, and the outer ones have two operands.
IntersectionHasTwoWitness ==
    /\ Returned /\ optimize
    /\ Len(tokens) = 5
    /\ tokens[2].type = "CharacterClassOpen"
    /\ tokens[4].type = "CharacterClassIntersector"
    /\ \E x \in Intersections :
          tokenOf[x] = 1 /\ Len(nodes[x].classes) = 2
    /\ \A x \in Intersections : tokenOf[x] # 2

----------------------------------------------------------------------------
(* Atomic groups and groups with flags, under SpecOptimizer. *)

\* Node n is a Group that is atomic and has flags.
AtomicWithFlags(n) ==
    /\ nodes[n].type = "Group"
    /\ nodes[n].atomic
    /\ nodes[n].flags # NoFlags

\* No Group made so far is atomic and has flags, in the AST or out of it.
NoAtomicWithFlags == \A n \in 1..Len(nodes) : ~AtomicWithFlags(n)

\* The sole element of Group g when it is a Group, else 0.
SoleGroupIn(g) ==
    LET alts == nodes[g].alternatives
        els == nodes[alts[1]].elements
    IN  IF Len(alts) = 1 /\ Len(els) = 1 /\ nodes[els[1]].type = "Group"
        THEN els[1] ELSE 0

\* One of the two groups is atomic and the other has flags.
AtomicMeetsFlags(g, inner) ==
    \/ nodes[g].atomic /\ nodes[inner].flags # NoFlags
    \/ nodes[g].flags # NoFlags /\ nodes[inner].atomic

\* The closing parenthesis is read for a Group whose sole element is a
\* Group, one of the two atomic and the other with flags.
AtomicOverFlagsClosed ==
    /\ InGroup
    /\ HasToken
    /\ NextToken.type = "GroupClose"
    /\ nodes[Frame.node].type = "Group"
    /\ SoleGroupIn(Frame.node) # 0
    /\ AtomicMeetsFlags(Frame.node, SoleGroupIn(Frame.node))
    /\ ret' # 0

\* Then the outer group is returned and no node is changed.
AtomicAndFlagsKeptApart ==
    AtomicOverFlagsClosed => ret' = Frame.node /\ nodes' = nodes

\* C32: no Group is atomic and has flags, in a returned AST or before, with
\* optimize or without: createGroup sets one of the two at most and the
\* rewrite of redundant nesting leaves a pair of an atomic group and a
\* group with flags as it is.
NeverAtomicAndFlags == []NoAtomicWithFlags /\ [][AtomicAndFlagsKeptApart]_vars

\* With optimize true an AST is returned in which a Group with flags still
\* holds an atomic Group as its sole element.
NeverAtomicAndFlagsWitness ==
    /\ Returned /\ optimize
    /\ \E g \in AstOfType("Group") :
          /\ nodes[g].flags = "i"
          /\ SoleGroupIn(g) # 0
          /\ nodes[SoleGroupIn(g)].atomic

====
